---- MODULE Spec2Model ----
(***************************************************************************)
(* A model of the agent runtime of nanami-ai-assistant (src/backend):      *)
(*   - MemoryManager (core/memory.py): transcript, summary, compaction;    *)
(*   - agent_main_loop (core/agent_loop.py): the event-emitting main loop; *)
(*   - ToolManager.execute_tool_calls (tools/manager.py): the batch;       *)
(*   - _truncate_large_tool_result (core/agent_loop.py);                   *)
(*   - SubAgent (core/subagent.py) with the TodoStore it mirrors to.       *)
(* Texts are modelled by their length in characters and a tag that says    *)
(* where they come from; messages carry the order in which they were       *)
(* appended (seq), so that two messages are never confused.                *)
(***************************************************************************)
EXTENDS Integers, Sequences, FiniteSets, TLC

\* ------------------------------------------------------------------------
\* Bounds of the model (not program constants).
\* ------------------------------------------------------------------------
\* Messages added to one MemoryManager in the compaction specification.
MaxMsgs == 7
\* Tool calls in one execute_tool_calls batch.
MaxBatch == 3
\* Largest integer MAX_TOOL_CONCURRENCY is set to.
MaxConc == 2
\* Largest max_iterations a main-loop run is started with.
MaxIter == 2
\* Tool calls the main model returns in one run, over all its turns.
MaxCalls == 2
\* Largest max_iterations a sub-agent is constructed with.
MaxSubIter == 4
\* Tool calls a sub-agent's model returns in one run, over all its turns.
MaxSubCalls == 2
\* Operations on the TODO file in one run of the TodoStore specification.
MaxTodoOps == 1
\* Items the TODO file holds at most.
MaxTodos == 3
\* Ids in the list given to one reorder_todos call.
MaxReorderIds == 2
\* save_report calls in one run, and the clock seconds they are spread over.
MaxSaves == 3
MaxSecond == 2
MaxWriters == 2
MaxElapsed == 3
MaxRetries == 3
MaxRateCalls == 3
MaxInterval == 2
MaxRateTicks == 5

\* ------------------------------------------------------------------------
\* Program constants.
\* ------------------------------------------------------------------------
\* memory.py:168  short_term_memory[-6:]
KeepLast == 6
\* memory.py:104  total_chars // 4
CharsPerToken == 4
\* memory.py:87   AUTO_COMPACT_RATIO default 0.92, in percent
DefaultRatioPct == 92
\* model_manager.py:222  default context_length
DefaultContextLength == 200000
\* memory.py:135  len("会话摘要：\n")
SummaryPrefixLen == 6
\* memory.py:165  len("(自动压缩失败：未能生成摘要)")
PlaceholderLen == 15
\* model_manager.py:145  len("[LLM错误] ")
LLMErrorPrefixLen == 8
\* agent_loop.py:46  TOOL_RESULT_MAX_SIZE default
DefaultToolResultMaxSize == 10240
\* agent_loop.py:75, 98  a base64 field is cached when longer than this
BlobMin == 1000
\* agent_loop.py:88, 111  characters of the blob that are kept
BlobKeep == 100
\* agent_loop.py:88  len("...[已缓存]")
CachedMarkLen == 8
\* file_store.py:155  len(str(uuid.uuid4()))
FileIdLen == 36
\* agent_loop.py:61  len of the plain-text note without its two numbers
PlainNoteLen == 26
\* agent_loop.py:138  len("\n\n[... JSON过大，已截断]")
JsonNoteLen == 18
\* agent_loop.py:122  len of the text note without its number, its two
\* line breaks written as \n by json.dumps
TextNoteLen == 21
\* agent_loop.py:92  len of the screenshot _summary without the file id
ShotSummaryLen == 55
\* agent_loop.py:115  len of the pdf _summary without the file id
PdfSummaryLen == 56
\* agent_loop.py:89  len(" 字符 (~") + len("KB)")
SizeNoteLen == 9
\* agent_loop.py:123  len(" 字符")
TextSizeNoteLen == 3
\* manager.py:634  len('{"error": false, "data": ' + '}') around the data dict
EnvelopeLen == 26
\* manager.py:600  MAX_TOOL_CONCURRENCY default
DefaultConcurrency == 1
\* manager.py:604  the value used when MAX_TOOL_CONCURRENCY is not an integer
FallbackConcurrency == 5
\* agent_loop.py:448  a content longer than this is cached
LongContentMin == 5000
\* agent_loop.py:459  characters of a long content kept in the transcript
RefKeep == 500
\* agent_loop.py:459  len of the cache note without the response id
RefNoteLen == 44
\* agent_loop.py:466  chunk_size of the content events
ChunkSize == 1000
\* agent_loop.py:599  len of the text that goes with injected screenshots
ScreenshotNoteLen == 23
\* agent_loop.py:211  len of the compact sub-agent report with default fields
SubReportLen == 159
\* agent_loop.py:238  len of the sub-agent error message with its default text
SubErrorLen == 42

VARIABLES
    \* MemoryManager
    short_term_memory,  \* Seq of messages
    mid_term_summary,   \* NoText or a text
    added,              \* number of add_message calls so far (gives seq)
    disk,               \* NotSaved or the last conversation written
    saves,              \* number of save_to_disk calls
    \* environment read by check_and_compact
    context_length,     \* MAIN_CONTEXT_LENGTH
    ratio_env,          \* AUTO_COMPACT_RATIO in percent
    \* the last check_and_compact call: its return value and what it saw
    compact_state

memVars == <<short_term_memory, mid_term_summary, added, disk, saves,
             context_length, ratio_env, compact_state>>

VARIABLES
    \* _truncate_large_tool_result applied to one tool result
    t_pc,               \* "input" | "output"
    t_in,               \* the tool result's content, by shape and sizes
    t_max,              \* TOOL_RESULT_MAX_SIZE as the environment gives it
    t_out               \* length of the content of the returned message

truncVars == <<t_pc, t_in, t_max, t_out>>

VARIABLES
    \* one ToolManager.execute_tool_calls batch
    b_calls,            \* the tool_calls argument
    b_env,              \* MAX_TOOL_CONCURRENCY as the environment gives it
    b_task,             \* per call, where its run_one task is
    b_sem,              \* free permits of the semaphore
    b_res,              \* per call, what run_one returned
    b_order,            \* indices of the calls in the order they completed
    b_how,              \* per call: how its tool.execute ended, "none" if never awaited
    b_ret,              \* "pending" | "returned" | "raised": the await of gather
    b_results           \* the list execute_tool_calls returned

batchVars == <<b_calls, b_env, b_task, b_sem, b_res, b_order, b_how, b_ret, b_results>>

VARIABLES
    \* one run of agent_main_loop; its MemoryManager is the one above
    pc,                 \* "setup" | "loop" | "after" | "done" ("idle": no run)
    request,            \* the arguments and what the run finds at setup
    max_iterations,     \* argument
    save_ltm,           \* argument
    iteration,          \* the loop counter
    events,             \* what the generator has yielded so far
    turn_log,           \* per iteration, the model's reply and how it ended
    model_calls,        \* main_client.chat calls of the loop
    ltm_calls,          \* summarize_preferences calls
    calls_left          \* tool calls the model may still return in this run

loopVars == <<pc, request, max_iterations, save_ltm, iteration, events,
              turn_log, model_calls, ltm_calls, calls_left>>

VARIABLES
    \* the TODO file of one session
    todo_store,         \* Seq of items
    todo_next_id,       \* the id the next created item gets
    todo_clock          \* time.time() of the next write

todoVars == <<todo_store, todo_next_id, todo_clock>>

VARIABLES
    \* one run of SubAgent.execute
    s_pc,               \* "start" | "loop" | "tools" | "returned" ("idle": no run)
    s_name,             \* self.name
    s_max_iterations,   \* self.max_iterations
    s_max_heavy,        \* SUBAGENT_MAX_HEAVY_CALLS_PER_ITER as the environment gives it
    s_iteration,        \* the loop counter
    s_todos,            \* self.todos
    s_memory,           \* self.memory, the messages in order
    s_pending,          \* the admitted tool calls not yet executed
    s_result,           \* what execute returned
    s_log,              \* per iteration, the model's reply and the calls admitted
    s_calls_left        \* tool calls the model may still return in this run

subVars == <<s_pc, s_name, s_max_iterations, s_max_heavy, s_iteration, s_todos,
             s_memory, s_pending, s_result, s_log, s_calls_left>>

VARIABLES
    \* the calls made on the TodoStore of the session
    todo_call,          \* the latest call on the TodoStore and what it was given
    todo_ops            \* how many calls were made

todoCallVars == <<todo_call, todo_ops>>

VARIABLES
    \* services/report_store.py: the reports directory
    r_now,              \* the wall clock, in seconds
    r_files,            \* the report files: a set of [id, content]
    r_saves             \* per save_report call, the id returned and the content written

reportVars == <<r_now, r_files, r_saves>>

VARIABLES
    \* callers of the TodoStore whose calls on one session overlap
    w_op,               \* per caller, its call
    w_pc,               \* per caller: "start" | "loaded" | "opened" | "done" | "failed"
    w_data,             \* per caller, the data dict of its call
    w_partial,          \* the file is open for writing and not written yet
    w_file0,            \* the file before the calls
    w_seen              \* what one list_todos call found: "none" | "list" | "partial"

storeVars == <<w_op, w_pc, w_data, w_partial, w_file0, w_seen>>

VARIABLES
    \* one ToolManager.execute_tool call; times are in half seconds
    x_pc,               \* "call" | "running" | "returned" ("idle": no call)
    x_name,             \* tool_name, as the sequence of its words
    x_args,             \* the arguments dict the caller gave
    x_env,              \* TOOL_EXECUTION_TIMEOUT as the environment gives it
    x_session,          \* the session_id argument
    x_called,           \* tool.execute(**arguments) was evaluated
    x_passed,           \* the keyword arguments it was evaluated with
    x_reached,          \* the body of the tool's execute started
    x_deadline,         \* the timeout given to asyncio.wait_for
    x_clock,            \* time since wait_for started
    x_result            \* "none" | "tool" | "timeout" | "failure" | "unknown_tool"

execVars == <<x_pc, x_name, x_args, x_env, x_session, x_called, x_passed, x_reached,
              x_deadline, x_clock, x_result>>

VARIABLES
    \* one ChatCompletions.create request
    h_pc,               \* "attempt" | "sleep" | "ended" ("idle": no request)
    h_max_retries,      \* self.client.max_retries
    h_attempt,          \* the loop variable
    h_log,              \* per HTTP attempt made, how it ended
    h_sleeps,           \* the back-offs slept, in seconds
    h_result            \* "none" | "completion" | "error" | "nothing"

VARIABLES
    \* LLMClient._apply_rate_limit calls of one process; times are in seconds
    r_env,              \* LLM_MIN_INTERVAL as the environment gives it
    r_calls,            \* per call, the client's profile and the override_model
    r_pc,               \* per call: "start" | "queued" | "sleeping" | "passed"
    r_lock,             \* the call that holds _rate_limiter_lock (0: free)
    r_waiters,          \* the calls waiting for the lock, first come first
    r_wake,             \* per call, when its asyncio.sleep is over
    r_last_call_times,  \* LLMClient._last_call_times, as a set of entries
    r_clock,            \* time.time()
    r_log               \* the calls that passed the limiter, with their times

VARIABLES
    \* agent_main_loop runs that share one session_id
    run_no,             \* which run of the session this is (0: none)
    first_disk          \* the conversation file as the first run left it

httpVars == <<h_pc, h_max_retries, h_attempt, h_log, h_sleeps, h_result>>
runVars == <<run_no, first_disk>>
rateVars == <<r_env, r_calls, r_pc, r_lock, r_waiters, r_wake, r_last_call_times,
              r_clock, r_log>>

vars == <<memVars, truncVars, batchVars, loopVars, todoVars, subVars, todoCallVars,
          reportVars, storeVars, execVars, httpVars, runVars, rateVars>>

\* What a step of one component leaves alone.
CompactFrame ==
    UNCHANGED <<truncVars, batchVars, loopVars, todoVars, subVars, todoCallVars,
                reportVars, storeVars, execVars, httpVars, runVars, rateVars>>
TruncFrame ==
    UNCHANGED <<memVars, batchVars, loopVars, todoVars, subVars, todoCallVars,
                reportVars, storeVars, execVars, httpVars, runVars, rateVars>>
BatchFrame ==
    UNCHANGED <<memVars, truncVars, loopVars, todoVars, subVars, todoCallVars,
                reportVars, storeVars, execVars, httpVars, runVars, rateVars>>
LoopFrame ==
    UNCHANGED <<truncVars, batchVars, todoVars, subVars, todoCallVars, reportVars,
                storeVars, execVars, httpVars, runVars, rateVars>>
SubFrame ==
    UNCHANGED <<memVars, truncVars, batchVars, loopVars, todoCallVars, reportVars,
                storeVars, execVars, httpVars, runVars, rateVars>>
TodoFrame ==
    UNCHANGED <<memVars, truncVars, batchVars, loopVars, subVars, reportVars,
                storeVars, execVars, httpVars, runVars, rateVars>>
ReportFrame ==
    UNCHANGED <<memVars, truncVars, batchVars, loopVars, todoVars, subVars,
                todoCallVars, storeVars, execVars, httpVars, runVars, rateVars>>
StoreFrame ==
    UNCHANGED <<memVars, truncVars, batchVars, loopVars, subVars, todoCallVars,
                reportVars, execVars, httpVars, runVars, rateVars>>
ExecFrame ==
    UNCHANGED <<memVars, truncVars, batchVars, loopVars, todoVars, subVars,
                todoCallVars, reportVars, storeVars, httpVars, runVars, rateVars>>
HttpFrame ==
    UNCHANGED <<memVars, truncVars, batchVars, loopVars, todoVars, subVars,
                todoCallVars, reportVars, storeVars, execVars, runVars, rateVars>>
RunsFrame ==
    UNCHANGED <<truncVars, batchVars, todoVars, subVars, todoCallVars, reportVars,
                storeVars, execVars, httpVars, rateVars>>
RateFrame ==
    UNCHANGED <<memVars, truncVars, batchVars, loopVars, todoVars, subVars,
                todoCallVars, reportVars, storeVars, execVars, httpVars, runVars>>

\* ------------------------------------------------------------------------
\* Helpers
\* ------------------------------------------------------------------------
Max(a, b) == IF a >= b THEN a ELSE b
Min(a, b) == IF a <= b THEN a ELSE b

RECURSIVE SumLen(_)
SumLen(s) == IF s = <<>> THEN 0 ELSE Head(s).len + SumLen(Tail(s))

\* s[-n:] of Python
LastN(s, n) == IF Len(s) <= n THEN s ELSE SubSeq(s, Len(s) - n + 1, Len(s))

\* An environment variable: not set, set to an integer, or set to a text
\* that int() rejects.
EnvUnset == [kind |-> "unset", val |-> 0]
EnvInt(n) == [kind |-> "int", val |-> n]
EnvText == [kind |-> "text", val |-> 0]

\* ------------------------------------------------------------------------
\* Texts and messages
\* ------------------------------------------------------------------------
NoText == [tag |-> "none", len |-> 0]
Text(tag, len) == [tag |-> tag, len |-> len]

NoCalls == <<>>
\* A message dict: role, content (kind + len), tool_calls, tool_call_id.
Msg(role, kind, len, calls, tcid, seq) ==
    [role |-> role, kind |-> kind, len |-> len,
     tool_calls |-> calls, tool_call_id |-> tcid, seq |-> seq]

NotSaved == [saved |-> FALSE, messages |-> <<>>, summary |-> NoText]

\* memory.py:96-104
_estimate_tokens(messages) == Max(1, SumLen(messages) \div CharsPerToken)

\* memory.py:81-93  a ratio outside (0,1) falls back to 0.92
_get_auto_compact_ratio(env) ==
    IF 0 < env /\ env < 100 THEN env ELSE DefaultRatioPct

\* memory.py:132-137
get_context(stm, mts) ==
    IF mts.len > 0
    THEN <<Msg("system", "summary", SummaryPrefixLen + mts.len, NoCalls, 0, 0)>> \o stm
    ELSE stm

\* memory.py:152  int(context_length * ratio)
Threshold(ctx, env) == (ctx * _get_auto_compact_ratio(env)) \div 100

\* model_manager.py:139-145  what LLMClient.chat hands back as "content":
\* the model's text, "" for an empty reply, the error text when the call failed.
ChatContent(reply) ==
    CASE reply.kind = "text"   -> Text("model", reply.len)
      [] reply.kind = "empty"  -> Text("model", 0)
      [] reply.kind = "failed" -> Text("llm_error", LLMErrorPrefixLen + reply.len)

\* memory.py:163-165
SummaryOf(reply) ==
    LET c == ChatContent(reply)
    IN  IF c.len = 0 THEN Text("placeholder", PlaceholderLen) ELSE c

\* memory.py:168
KeptAfterCompact(stm) == LastN(stm, KeepLast)

\* The fields of one MemoryManager as a value, and the assignment of such a
\* value to the MemoryManager of the state.
Mem == [stm |-> short_term_memory, mts |-> mid_term_summary,
        added |-> added, disk |-> disk, saves |-> saves]
SetMem(m) ==
    /\ short_term_memory' = m.stm
    /\ mid_term_summary' = m.mts
    /\ added' = m.added
    /\ disk' = m.disk
    /\ saves' = m.saves

\* memory.py:129-130
add_message(m, role, kind, len, calls, tcid) ==
    [m EXCEPT !.stm = Append(m.stm, Msg(role, kind, len, calls, tcid, m.added + 1)),
              !.added = m.added + 1]

\* memory.py:139-145 with 32-56
save_to_disk(m) ==
    [m EXCEPT !.disk = [saved |-> TRUE, messages |-> m.stm, summary |-> m.mts],
              !.saves = m.saves + 1]

\* memory.py:147-173, a faulty variant: the compacted session is not saved
check_and_compactUnsaved(m, reply, ctx, env) ==
    LET messages  == get_context(m.stm, m.mts)
        tokens    == _estimate_tokens(messages)
        threshold == Threshold(ctx, env)
    IN  IF tokens < threshold
        THEN [mem |-> m, compacted |-> FALSE,
              tokens |-> tokens, threshold |-> threshold]
        ELSE [mem |-> [m EXCEPT !.mts = SummaryOf(reply),
                                !.stm = KeptAfterCompact(m.stm)],
              compacted |-> TRUE, tokens |-> tokens, threshold |-> threshold]

\* memory.py:147-173  check_and_compact, the compact model answering `reply`:
\* the MemoryManager afterwards and the dict returned
check_and_compact(m, reply, ctx, env) ==
    LET messages  == get_context(m.stm, m.mts)
        tokens    == _estimate_tokens(messages)
        threshold == Threshold(ctx, env)
    IN  IF tokens < threshold
        THEN [mem |-> m, compacted |-> FALSE,
              tokens |-> tokens, threshold |-> threshold]
        ELSE [mem |-> save_to_disk([m EXCEPT !.mts = SummaryOf(reply),
                                             !.stm = KeptAfterCompact(m.stm)]),
              compacted |-> TRUE, tokens |-> tokens, threshold |-> threshold]

\* the compact model was not asked
NoReply == [kind |-> "none", len |-> 0]
NoCompactState == [called |-> FALSE, compacted |-> FALSE, tokens |-> 0,
                   threshold |-> 0, reply |-> NoReply, before |-> <<>>]

\* memory.py:108-124  a new MemoryManager
InitMemory ==
    /\ short_term_memory = <<>>
    /\ mid_term_summary = NoText
    /\ added = 0
    /\ disk = NotSaved
    /\ saves = 0
    /\ compact_state = NoCompactState

IdleMemory ==
    /\ InitMemory
    /\ context_length = DefaultContextLength
    /\ ratio_env = DefaultRatioPct

\* What agent_main_loop is called with and what it finds at setup:
\*   system      : length of the system prompt (persona + tool descriptions)
\*   ltm         : length of the long-term memory file, 0 when LTM is off or empty
\*   history     : roles of history_messages, in order
\*   attachments : number of text files among file_ids
\*   images      : number of image files among file_ids
\*   user        : length of user_input
\*   todos       : the session has pending or in_progress TODO items
\*   hist_len, att_len, todo_len : lengths of a history message, of an
\*                 attachment message, of the TODO reminder
NoRequest == [system |-> 0, ltm |-> 0, history |-> <<>>, hist_len |-> 0,
              attachments |-> 0, att_len |-> 0, images |-> 0, user |-> 0,
              todos |-> FALSE, todo_len |-> 0]

\* No main-loop run.
IdleLoop ==
    /\ pc = "idle"
    /\ request = NoRequest
    /\ max_iterations = 0
    /\ save_ltm = FALSE
    /\ iteration = 0
    /\ events = <<>>
    /\ turn_log = <<>>
    /\ model_calls = 0
    /\ ltm_calls = 0
    /\ calls_left = 0

\* No sub-agent run, and the TODO file it would work on.
NoSubResult ==
    [error |-> FALSE, kind |-> "none", subagent |-> "", summary |-> 0,
     todos_completed |-> 0, todos_total |-> 0, iterations |-> 0]

IdleTodo ==
    /\ todo_store = <<>>
    /\ todo_next_id = 1
    /\ todo_clock = 1

IdleSub ==
    /\ s_pc = "idle"
    /\ s_name = ""
    /\ s_max_iterations = 0
    /\ s_max_heavy = EnvUnset
    /\ s_iteration = 0
    /\ s_todos = <<>>
    /\ s_memory = <<>>
    /\ s_pending = <<>>
    /\ s_result = NoSubResult
    /\ s_log = <<>>
    /\ s_calls_left = 0

NoTodoCall == [op |-> "none", id |-> 0, ids |-> <<>>, found |-> FALSE]

IdleTodoCall ==
    /\ todo_call = NoTodoCall
    /\ todo_ops = 0

IdleReport ==
    /\ r_now = 0
    /\ r_files = {}
    /\ r_saves = <<>>

\* the keyword arguments of a call that the model follows: session_id and
\* _timeout, each given or not
ToolArgs(has_session, session, has_timeout, timeout) ==
    [has_session |-> has_session, session_id |-> session,
     has_timeout |-> has_timeout, _timeout |-> timeout]
NoToolArgs == ToolArgs(FALSE, "", FALSE, 0)

IdleExec ==
    /\ x_pc = "idle"
    /\ x_name = <<>>
    /\ x_args = NoToolArgs
    /\ x_env = EnvUnset
    /\ x_session = ""
    /\ x_called = FALSE
    /\ x_passed = NoToolArgs
    /\ x_reached = FALSE
    /\ x_deadline = 0
    /\ x_clock = 0
    /\ x_result = "none"

IdleHttp ==
    /\ h_pc = "idle"
    /\ h_max_retries = 0
    /\ h_attempt = 0
    /\ h_log = <<>>
    /\ h_sleeps = <<>>
    /\ h_result = "none"

IdleRuns ==
    /\ run_no = 0
    /\ first_disk = NotSaved

IdleRate ==
    /\ r_env = EnvUnset
    /\ r_calls = <<>>
    /\ r_pc = <<>>
    /\ r_lock = 0
    /\ r_waiters = <<>>
    /\ r_wake = <<>>
    /\ r_last_call_times = {}
    /\ r_clock = 0
    /\ r_log = <<>>

IdleStore ==
    /\ w_op = <<>>
    /\ w_pc = <<>>
    /\ w_data = <<>>
    /\ w_partial = FALSE
    /\ w_file0 = <<>>
    /\ w_seen = "none"

\* ------------------------------------------------------------------------
\* _truncate_large_tool_result (agent_loop.py:26-141), on lengths.
\* A tool result's content is the json.dumps of what the tool returned:
\*   plain      : a text that does not parse as JSON, of r.len characters
\*   json_other : JSON without a "data" dict, of r.len characters
\*   json_data  : {"error": false, "data": {...}} whose data dict holds the
\*                string fields screenshot, pdf, text and one other field
\*                ("html"), each absent (-1) or of the given length
\* ------------------------------------------------------------------------
RECURSIVE Digits(_)
\* len(str(n)) for n >= 0
Digits(n) == IF n < 10 THEN 1 ELSE 1 + Digits(n \div 10)

RECURSIVE SumEntries(_)
SumEntries(es) == IF es = <<>> THEN 0 ELSE Head(es).k + 4 + Head(es).v + SumEntries(Tail(es))

\* len(json.dumps(d)) of a dict given as entries [k: key length, v: length of
\* the value as written]: braces, "key": value, and ", " between entries
DictLen(es) == 2 + SumEntries(es) + (IF Len(es) > 0 THEN 2 * (Len(es) - 1) ELSE 0)

\* a string value of n characters is written with its two quotes
Str(n) == n + 2
Entry(k, v) == <<[k |-> k, v |-> v]>>
Opt(present, es) == IF present THEN es ELSE <<>>

\* the data dict as the tool returned it
DataEntries(r) ==
    Opt(r.screenshot >= 0, Entry(10, Str(r.screenshot)))
    \o Opt(r.pdf >= 0, Entry(3, Str(r.pdf)))
    \o Opt(r.text >= 0, Entry(4, Str(r.text)))
    \o Opt(r.other >= 0, Entry(4, Str(r.other)))

\* manager.py:634  len(content) of the tool message
ContentLen(r) ==
    IF r.kind = "json_data" THEN EnvelopeLen + DictLen(DataEntries(r)) ELSE r.len

ShotCached(r) == r.screenshot > BlobMin
PdfCached(r)  == r.pdf > BlobMin
TextCut(r, max_size) == r.text > max_size

\* agent_loop.py:73-125  the data dict after the three replacements
DataEntriesAfter(r, max_size) ==
    Opt(r.screenshot >= 0,
        IF ShotCached(r)
        THEN Entry(10, Str(BlobKeep + CachedMarkLen))
             \o Entry(15, Str(Digits(r.screenshot) + SizeNoteLen
                                + Digits(r.screenshot \div 1024)))
             \o Entry(18, Str(FileIdLen))
             \o Entry(20, 4)
        ELSE Entry(10, Str(r.screenshot)))
    \o Opt(r.pdf >= 0,
        IF PdfCached(r)
        THEN Entry(3, Str(BlobKeep + CachedMarkLen))
             \o Entry(8, Str(Digits(r.pdf) + SizeNoteLen + Digits(r.pdf \div 1024)))
             \o Entry(11, Str(FileIdLen))
             \o Entry(13, 4)
        ELSE Entry(3, Str(r.pdf)))
    \o Opt(ShotCached(r) \/ PdfCached(r),
        Entry(8, Str((IF PdfCached(r) THEN PdfSummaryLen ELSE ShotSummaryLen)
                     + FileIdLen)))
    \o Opt(r.text >= 0,
        IF TextCut(r, max_size)
        THEN Entry(4, Str(max_size + TextNoteLen + Digits(r.text - max_size)))
             \o Entry(9, Str(Digits(r.text) + TextSizeNoteLen))
             \o Entry(14, 4)
        ELSE Entry(4, Str(r.text)))
    \o Opt(r.other >= 0, Entry(4, Str(r.other)))

\* agent_loop.py:44-48  int(os.getenv(..., "10240")), 10240 when that fails
ToolResultMaxSize(env) == IF env.kind = "int" THEN env.val ELSE DefaultToolResultMaxSize

\* agent_loop.py:127-132  json.dumps(content_data) after the replacements
TruncatedDataLen(r, max_size) == EnvelopeLen + DictLen(DataEntriesAfter(r, max_size))

\* agent_loop.py:26-141  length of the content of the returned message
_truncate_large_tool_result(r, max_size) ==
    LET n == ContentLen(r)
    IN  IF n <= max_size THEN n
        ELSE IF r.kind = "plain"
             THEN max_size + PlainNoteLen + Digits(n) + Digits(n - max_size)
        ELSE IF r.kind = "json_data"
                /\ (ShotCached(r) \/ PdfCached(r) \/ TextCut(r, max_size))
             THEN TruncatedDataLen(r, max_size)
        ELSE max_size + JsonNoteLen

\* ------------------------------------------------------------------------
\* Specification SpecTrunc: _truncate_large_tool_result on one tool result
\* of every shape and of sizes around the thresholds of the code.
\* ------------------------------------------------------------------------
MaxSizeEnvs == {EnvUnset, EnvInt(2048), EnvText}
WholeLens == {100, 2048, 2049, 10240, 10241, 20000}
ShotLens  == {-1, 500, 1000, 1001, 200000}
PdfLens   == {-1, 1001, 50000}
TextLens  == {-1, 100, 10241, 30000}
OtherLens == {-1, 300, 50000}

ToolContents ==
    [kind : {"plain", "json_other"}, len : WholeLens,
     screenshot : {-1}, pdf : {-1}, text : {-1}, other : {-1}]
    \cup [kind : {"json_data"}, len : {0},
          screenshot : ShotLens, pdf : PdfLens, text : TextLens, other : OtherLens]

SmallResult == [kind |-> "json_data", len |-> 0,
                screenshot |-> -1, pdf |-> -1, text |-> -1, other |-> -1]

IdleTrunc ==
    /\ t_pc = "idle"
    /\ t_in = SmallResult
    /\ t_max = EnvUnset
    /\ t_out = 0

InitTrunc ==
    /\ t_pc = "input"
    /\ t_in \in ToolContents
    /\ t_max \in MaxSizeEnvs
    /\ t_out = 0

Truncate ==
    /\ t_pc = "input"
    /\ t_out' = _truncate_large_tool_result(t_in, ToolResultMaxSize(t_max))
    /\ t_pc' = "output"
    /\ UNCHANGED <<t_in, t_max>>
    /\ TruncFrame

\* ------------------------------------------------------------------------
\* ToolManager.execute_tool_calls (manager.py:585-638) and execute_tool
\* (manager.py:496-583).
\* A tool call is [id, name, args, out]:
\*   name : "tool" (a registered tool), "x_subagent" (a registered sub-agent
\*          tool), "nope" (not registered)
\*   args : what function.arguments is: "object" (JSON of an object),
\*          "badjson" (not JSON), "nonobject" (JSON of a list, null, ...)
\*   out  : how the tool's execute ends once it runs: "ok", "image" (ok, with
\*          the file_id of an image in data), "timeout", "tool_error"
\* ------------------------------------------------------------------------
Call(id, name, args, out) == [id |-> id, name |-> name, args |-> args, out |-> out]

RegisteredTools == {"tool", "x_subagent"}

NoResult == [tool_call_id |-> 0, name |-> "", body |-> "none"]
\* manager.py:618-635  the tool message run_one returns
ToolMessage(id, name, body) == [tool_call_id |-> id, name |-> name, body |-> body]

\* manager.py:600-604
MaxConcurrency(env) ==
    IF env.kind = "text" THEN FallbackConcurrency
    ELSE LET n == IF env.kind = "int" THEN env.val ELSE DefaultConcurrency
         IN  IF n <= 0 THEN 1 ELSE n

\* manager.py:615-625  json.loads(arguments_str) raises JSONDecodeError
ParseFails(call) == call.args = "badjson"
\* manager.py:516-521
UnknownTool(call) == call.name \notin RegisteredTools
\* manager.py:527  arguments.get on a list, a string, a number or None
\* raises AttributeError, outside the try of execute_tool
ExecuteToolRaises(call) == ~UnknownTool(call) /\ call.args = "nonobject"
\* manager.py:556-560  the call reaches tool.execute and is awaited
AwaitsTool(call) == ~UnknownTool(call) /\ call.args = "object"

\* manager.py:565-583, a faulty variant: the exceptions of the tool are not caught
ExecuteToolBodyUncaught(out) == out

\* manager.py:565-583  the result of execute_tool once the tool has ended
ExecuteToolBody(out) ==
    CASE out = "timeout"    -> "timeout_error"
      [] out = "tool_error" -> "failure_error"
      [] OTHER              -> out

\* manager.py:609, 631
ResultId(call) == call.id

\* manager.py:608-635  run_one from start to end, for a call that does not raise
RunOneResult(call) ==
    IF ParseFails(call) THEN ToolMessage(ResultId(call), "", "parse_error")
    ELSE IF UnknownTool(call) THEN ToolMessage(ResultId(call), call.name, "unknown_tool")
    ELSE ToolMessage(ResultId(call), call.name, ExecuteToolBody(call.out))

RunOneRaises(call) == ~ParseFails(call) /\ ExecuteToolRaises(call)

\* manager.py:638, a faulty variant: results in completion order
GatherInCompletionOrder(res, order) == [i \in 1..Len(order) |-> res[order[i]]]

\* manager.py:637-638  asyncio.gather returns the results in the order of
\* the awaitables it was given
Gather(res, order) == [i \in 1..Len(order) |-> res[i]]

\* manager.py:585-638  the whole batch as its caller sees it
execute_tool_calls(calls) ==
    IF \E i \in 1..Len(calls) : RunOneRaises(calls[i])
    THEN [raised |-> TRUE, results |-> <<>>]
    ELSE [raised |-> FALSE,
          results |-> [i \in 1..Len(calls) |-> RunOneResult(calls[i])]]

\* ---- the batch step by step -------------------------------------------
InFlight == Cardinality({i \in 1..Len(b_calls) : b_task[i] = "running"})
Waiting == {i \in 1..Len(b_calls) : b_task[i] = "waiting"}
Ended(i) == b_task[i] \in {"done", "failed"}

\* manager.py:627, a faulty variant: no semaphore
SemFreeAlways == TRUE

\* manager.py:627  asyncio.Semaphore.acquire goes through when a permit is free
SemFree == b_sem > 0

\* manager.py:627-628  the task holds a permit and calls execute_tool, which
\* returns or raises at once unless it awaits the tool
Enter(i, task, sem) ==
    LET call == b_calls[i]
    IN  IF AwaitsTool(call)
        THEN /\ b_task' = [task EXCEPT ![i] = "running"]
             /\ b_sem' = sem - 1
             /\ UNCHANGED <<b_res, b_order>>
        ELSE IF ExecuteToolRaises(call)
        THEN /\ b_task' = [task EXCEPT ![i] = "failed"]
             /\ b_sem' = sem
             /\ b_order' = Append(b_order, i)
             /\ UNCHANGED b_res
        ELSE /\ b_task' = [task EXCEPT ![i] = "done"]
             /\ b_sem' = sem
             /\ b_res' = [b_res EXCEPT ![i] = RunOneResult(call)]
             /\ b_order' = Append(b_order, i)

\* manager.py:608-627  the event loop starts the tasks in the order gather
\* created them; each runs to its first suspension
StartTask(i) ==
    /\ b_ret = "pending" \/ b_ret = "raised"
    /\ b_task[i] = "new"
    /\ \A j \in 1..(i - 1) : b_task[j] # "new"
    /\ IF ParseFails(b_calls[i])
       THEN /\ b_task' = [b_task EXCEPT ![i] = "done"]
            /\ b_res' = [b_res EXCEPT ![i] = RunOneResult(b_calls[i])]
            /\ b_order' = Append(b_order, i)
            /\ UNCHANGED b_sem
       ELSE IF SemFree /\ Waiting = {}
       THEN Enter(i, b_task, b_sem)
       ELSE /\ b_task' = [b_task EXCEPT ![i] = "waiting"]
            /\ UNCHANGED <<b_sem, b_res, b_order>>
    /\ UNCHANGED <<b_calls, b_env, b_how, b_ret, b_results>>
    /\ BatchFrame

\* manager.py:627  a released permit wakes the longest-waiting task
WakeTask(i) ==
    /\ b_task[i] = "waiting"
    /\ \A j \in Waiting : i <= j
    /\ SemFree
    /\ Enter(i, b_task, b_sem)
    /\ UNCHANGED <<b_calls, b_env, b_how, b_ret, b_results>>
    /\ BatchFrame

\* manager.py:556-583, 627-635  the tool ends (in any order among the
\* running ones), the permit is released and run_one returns
FinishTask(i) ==
    /\ b_task[i] = "running"
    /\ \E out \in {b_calls[i].out, "timeout", "tool_error"} :
         /\ b_how' = [b_how EXCEPT ![i] = out]
         /\ b_res' = [b_res EXCEPT ![i] =
                         RunOneResult([b_calls[i] EXCEPT !.out = out])]
    /\ b_task' = [b_task EXCEPT ![i] = "done"]
    /\ b_sem' = b_sem + 1
    /\ b_order' = Append(b_order, i)
    /\ UNCHANGED <<b_calls, b_env, b_ret, b_results>>
    /\ BatchFrame

\* manager.py:638  every task returned: gather returns the list
GatherReturns ==
    /\ b_ret = "pending"
    /\ \A i \in 1..Len(b_calls) : b_task[i] = "done"
    /\ b_results' = Gather(b_res, b_order)
    /\ b_ret' = "returned"
    /\ UNCHANGED <<b_calls, b_env, b_task, b_sem, b_res, b_order, b_how>>
    /\ BatchFrame

\* manager.py:638  gather raises the first exception to its caller; the
\* other tasks go on
GatherRaises ==
    /\ b_ret = "pending"
    /\ \E i \in 1..Len(b_calls) : b_task[i] = "failed"
    /\ b_ret' = "raised"
    /\ UNCHANGED <<b_calls, b_env, b_task, b_sem, b_res, b_order, b_how, b_results>>
    /\ BatchFrame

BatchCallShapes ==
    {[name |-> "tool", args |-> "object"], [name |-> "nope", args |-> "object"],
     [name |-> "tool", args |-> "badjson"], [name |-> "tool", args |-> "nonobject"],
     [name |-> "x_subagent", args |-> "object"]}
ConcurrencyEnvs == {EnvUnset, EnvText} \cup {EnvInt(n) : n \in 0..MaxConc}

IdleBatch ==
    /\ b_calls = <<>>
    /\ b_env = EnvUnset
    /\ b_task = <<>>
    /\ b_sem = 0
    /\ b_res = <<>>
    /\ b_order = <<>>
    /\ b_how = <<>>
    /\ b_ret = "idle"
    /\ b_results = <<>>

InitBatch ==
    /\ \E n \in 0..MaxBatch :
         \E shapes \in [1..n -> BatchCallShapes] :
           b_calls = [i \in 1..n |-> Call(i, shapes[i].name, shapes[i].args, "ok")]
    /\ b_env \in ConcurrencyEnvs
    /\ b_task = [i \in 1..Len(b_calls) |-> "new"]
    /\ b_sem = MaxConcurrency(b_env)
    /\ b_res = [i \in 1..Len(b_calls) |-> NoResult]
    /\ b_order = <<>>
    /\ b_how = [i \in 1..Len(b_calls) |-> "none"]
    /\ b_ret = "pending"
    /\ b_results = <<>>

NextBatch ==
    \/ \E i \in 1..Len(b_calls) : StartTask(i)
    \/ \E i \in 1..Len(b_calls) : WakeTask(i)
    \/ \E i \in 1..Len(b_calls) : FinishTask(i)
    \/ GatherReturns
    \/ GatherRaises

InitBatchSpec ==
    InitBatch /\ IdleMemory /\ IdleTrunc /\ IdleLoop /\ IdleTodo /\ IdleSub
    /\ IdleTodoCall /\ IdleReport
    /\ IdleStore
    /\ IdleExec
    /\ IdleHttp
    /\ IdleRuns
    /\ IdleRate

SpecBatch == InitBatchSpec /\ [][NextBatch]_vars

\* ------------------------------------------------------------------------
\* Specification SpecCompact: one MemoryManager, messages of any of the
\* sizes MsgLens are added and check_and_compact is called at any time.
\* ------------------------------------------------------------------------
MsgLens == {40, 400}
\* what the compact model may answer: a short or a long summary, nothing, or a failure
CompactReplies ==
    {[kind |-> "text", len |-> 20], [kind |-> "text", len |-> 2000],
     [kind |-> "empty", len |-> 0], [kind |-> "failed", len |-> 30]}
ContextLengths == {100, DefaultContextLength}
RatioEnvs == {DefaultRatioPct, 50, 100}

InitCompact ==
    /\ InitMemory
    /\ IdleTrunc
    /\ IdleBatch
    /\ IdleLoop
    /\ IdleTodo
    /\ IdleSub
    /\ IdleTodoCall
    /\ IdleReport
    /\ context_length \in ContextLengths
    /\ ratio_env \in RatioEnvs
    /\ IdleStore
    /\ IdleExec
    /\ IdleHttp
    /\ IdleRuns
    /\ IdleRate

AddMessage ==
    /\ added < MaxMsgs
    /\ \E l \in MsgLens : SetMem(add_message(Mem, "user", "text", l, NoCalls, 0))
    /\ compact_state' = NoCompactState
    /\ UNCHANGED <<context_length, ratio_env>>
    /\ CompactFrame

CheckAndCompact ==
    /\ ~compact_state.called
    /\ \E reply \in CompactReplies :
         LET r == check_and_compact(Mem, reply, context_length, ratio_env)
         IN  /\ SetMem(r.mem)
             /\ compact_state' = [called |-> TRUE, compacted |-> r.compacted,
                                  tokens |-> r.tokens, threshold |-> r.threshold,
                                  reply |-> IF r.compacted THEN reply ELSE NoReply,
                                  before |-> short_term_memory]
    /\ UNCHANGED <<context_length, ratio_env>>
    /\ CompactFrame

NextCompact == AddMessage \/ CheckAndCompact

SpecCompact == InitCompact /\ [][NextCompact]_vars

NextTrunc == Truncate

InitTruncSpec ==
    InitTrunc /\ IdleMemory /\ IdleBatch /\ IdleLoop /\ IdleTodo /\ IdleSub
    /\ IdleTodoCall /\ IdleReport
    /\ IdleStore
    /\ IdleExec
    /\ IdleHttp
    /\ IdleRuns
    /\ IdleRate

SpecTrunc == InitTruncSpec /\ [][NextTrunc]_vars

\* ------------------------------------------------------------------------
\* agent_main_loop (agent_loop.py:258-638).
\* An event the generator yields is [type, iter, kind, call]:
\*   type : "meta" | "content" | "tool_call" | "tool_result" | "done"
\*   iter : the iteration that yielded it (0: setup or after the loop)
\*   kind : what the event carries
\*   call : for a tool_result, the tool_call_id of the result it reports
\* The messages a piece of the code adds are given as a sequence, in the
\* order of its add_message calls; add_messages appends them.
\* ------------------------------------------------------------------------
Event(type, iter, kind, call) == [type |-> type, iter |-> iter, kind |-> kind, call |-> call]

\* a message before add_message has given it its place
NewMsg(role, kind, len, calls, tcid) == Msg(role, kind, len, calls, tcid, 0)

\* memory.py:129-130  add_message for each message of ds, in order
add_messages(m, ds) ==
    [m EXCEPT !.stm = m.stm \o [i \in 1..Len(ds) |-> [ds[i] EXCEPT !.seq = m.added + i]],
              !.added = m.added + Len(ds)]

\* agent_loop.py:466-468  one content event per chunk of the content
ContentEvents(len, it) ==
    [k \in 1..((len + ChunkSize - 1) \div ChunkSize) |-> Event("content", it, "chunk", 0)]

\* agent_loop.py:313-317  only user and assistant messages of the history are added
HistoryMsgs(roles, len) ==
    LET kept == SelectSeq(roles, LAMBDA r : r \in {"user", "assistant"})
    IN  [i \in 1..Len(kept) |-> NewMsg(kept[i], "history", len, NoCalls, 0)]

\* agent_loop.py:324-349  each text attachment becomes a system message
AttachmentMsgs(n, len) ==
    [i \in 1..n |-> NewMsg("system", "attachment", len, NoCalls, 0)]

\* agent_loop.py:293-367  the messages added before the setup compaction
SetupMsgs(req) ==
    <<NewMsg("system", "system_prompt", req.system, NoCalls, 0)>>
    \o (IF req.ltm > 0 THEN <<NewMsg("system", "ltm", req.ltm, NoCalls, 0)>> ELSE <<>>)
    \o HistoryMsgs(req.history, req.hist_len)
    \o AttachmentMsgs(req.attachments, req.att_len)
    \o (IF req.images > 0
        THEN <<NewMsg("user", "user_multimodal", req.user, NoCalls, 0)>>
        ELSE <<NewMsg("user", "user_input", req.user, NoCalls, 0)>>)

\* agent_loop.py:373-405  the reminder about unfinished TODO items
TodoMsgs(req) ==
    IF req.todos THEN <<NewMsg("system", "todo_reminder", req.todo_len, NoCalls, 0)>>
    ELSE <<>>
\* agent_loop.py:407-414
TodoEvents(req) ==
    IF req.todos THEN <<Event("meta", 0, "todos_loaded", 0)>> ELSE <<>>

\* agent_loop.py:444-464  what the transcript receives for the content
ContentMsgs(content) ==
    IF content = 0 THEN <<>>
    ELSE IF content > LongContentMin
    THEN <<NewMsg("assistant", "content_ref", RefKeep + RefNoteLen + FileIdLen, NoCalls, 0)>>
    ELSE <<NewMsg("assistant", "content", content, NoCalls, 0)>>

\* agent_loop.py:500-515, a faulty variant: the calls are not recorded
AssistantToolCallsNone(calls) == <<>>

\* agent_loop.py:500-515  the tool_calls of assistant_msg
AssistantToolCalls(calls) == calls

\* agent_loop.py:500-515  assistant_msg carries the content as the model gave it
AssistantMsg(content, calls) ==
    NewMsg("assistant", "tool_calls", content, AssistantToolCalls(calls), 0)

\* manager.py:565-583, 618-625  the bodies that are error results
IsErrorBody(body) ==
    body \in {"parse_error", "unknown_tool", "timeout_error", "failure_error"}

\* The content a tool message of the main loop carries, by body: a small
\* data dict for a success, an error object otherwise.
ContentOf(body) ==
    IF IsErrorBody(body)
    THEN [kind |-> "json_other", len |-> 60,
          screenshot |-> -1, pdf |-> -1, text |-> -1, other |-> -1]
    ELSE [SmallResult EXCEPT !.other = IF body = "image" THEN FileIdLen ELSE 300]

\* agent_loop.py:537  tool_name.endswith("_subagent")
IsSubagentReport(res) == res.name = "x_subagent"

\* agent_loop.py:539-544, 556-581  the message one tool result leaves in the
\* transcript: the compact report of a sub-agent (agent_loop.py:144-255),
\* the truncated result of any other tool
ResultMsg(res) ==
    IF IsSubagentReport(res)
    THEN IF IsErrorBody(res.body)
         THEN NewMsg("tool", "subagent_error", SubErrorLen, NoCalls, res.tool_call_id)
         ELSE NewMsg("tool", "subagent_report", SubReportLen, NoCalls, res.tool_call_id)
    ELSE NewMsg("tool", res.body,
                _truncate_large_tool_result(ContentOf(res.body), ToolResultMaxSize(EnvUnset)),
                NoCalls, res.tool_call_id)

\* agent_loop.py:533-590  the for loop over tool_results: messages and events
ResultMsgs(results) == [i \in 1..Len(results) |-> ResultMsg(results[i])]
ResultEvents(results, it) ==
    [i \in 1..Len(results) |->
        Event("tool_result", it, results[i].name, results[i].tool_call_id)]

\* agent_loop.py:178-189, 558-576  next_round_images after the for loop
NextRoundImages(results) ==
    Cardinality({i \in 1..Len(results) : results[i].body = "image"})

\* agent_loop.py:593-603
ScreenshotMsgs(results) ==
    IF NextRoundImages(results) > 0
    THEN <<NewMsg("user", "screenshots", ScreenshotNoteLen, NoCalls, 0)>>
    ELSE <<>>

\* ltm.py:96-137 with agent_loop.py:487-491: what the extraction came to
LtmOutcomes == {"pref", "empty", "write_failed"}

\* agent_loop.py:483-493  the extraction of the no-tool-call turn
LtmEventsInLoop(enabled, outcome, it) ==
    IF ~enabled \/ outcome = "write_failed" THEN <<>>
    ELSE IF outcome = "pref" THEN <<Event("meta", it, "ltm_saved", 0)>>
    ELSE <<Event("meta", it, "ltm_not_saved", 0)>>

\* agent_loop.py:628-636  the extraction after the loop
LtmEventsAfterLoop(enabled, outcome) ==
    IF enabled /\ outcome = "pref" THEN <<Event("meta", 0, "ltm_saved", 0)>> ELSE <<>>

\* agent_loop.py:638, a faulty variant: the generator ends without done
YieldDoneNever == <<>>

\* agent_loop.py:638
YieldDone == <<Event("done", 0, "done", 0)>>

\* agent_loop.py:425-611  one pass through the body of the while loop, the
\* main model answering `reply`: the MemoryManager afterwards, the events
\* yielded, and how the pass ended ("continue" | "break" | "except")
IterationBody(m, reply, it, ltm_on, ltm_outcome) ==
    LET content == ChatContent(reply).len
        r       == execute_tool_calls(reply.calls)
    IN  IF reply.calls = <<>>
        THEN [mem |-> save_to_disk(add_messages(m, ContentMsgs(content))),
              events |-> ContentEvents(content, it)
                         \o LtmEventsInLoop(ltm_on, ltm_outcome, it),
              how |-> "break"]
        ELSE IF r.raised
        THEN [mem |-> add_messages(m, ContentMsgs(content)
                                      \o <<AssistantMsg(content, reply.calls)>>),
              events |-> ContentEvents(content, it)
                         \o <<Event("tool_call", it, "tool_call", 0),
                              Event("content", it, "error", 0)>>,
              how |-> "except"]
        ELSE [mem |-> add_messages(m, ContentMsgs(content)
                                      \o <<AssistantMsg(content, reply.calls)>>
                                      \o ResultMsgs(r.results)
                                      \o ScreenshotMsgs(r.results)),
              events |-> ContentEvents(content, it)
                         \o <<Event("tool_call", it, "tool_call", 0)>>
                         \o ResultEvents(r.results, it),
              how |-> "continue"]

\* ---- the run step by step ---------------------------------------------
RECURSIVE CallsIn(_)
\* tool calls the model has returned so far in this run
CallsIn(log) ==
    IF log = <<>> THEN 0 ELSE Len(Head(log).reply.calls) + CallsIn(Tail(log))

\* The tool calls a main-model reply may carry (see Call): an ordinary tool,
\* a tool that returns the file_id of an image, a sub-agent tool, and a tool
\* called with arguments that are JSON but not an object. (Arguments that
\* are not JSON, unknown tools and tools that fail are in SpecBatch.)
LoopCallShapes ==
    {[name |-> "tool", args |-> "object", out |-> "ok"],
     [name |-> "tool", args |-> "object", out |-> "image"],
     [name |-> "x_subagent", args |-> "object", out |-> "ok"],
     [name |-> "tool", args |-> "nonobject", out |-> "ok"]}

\* ids are given in the order the model returns the calls, from `first` on
CallSeqs(n, first) ==
    {[i \in 1..n |-> Call(first + i - 1, shapes[i].name, shapes[i].args, shapes[i].out)] :
        shapes \in [1..n -> LoopCallShapes]}

\* model_manager.py:100-145  what main_client.chat may hand back: a content
\* (none, short, long) with up to `budget` tool calls, or the error text of a
\* failed call, which carries no tool calls
ModelReplies(budget, first) ==
    {[kind |-> c.kind, len |-> c.len, calls |-> calls] :
        c \in {[kind |-> "empty", len |-> 0], [kind |-> "text", len |-> 800],
               [kind |-> "text", len |-> 5001]},
        calls \in UNION {CallSeqs(n, first) : n \in 0..budget}}
    \cup {[kind |-> "failed", len |-> 30, calls |-> <<>>]}

\* The requests of the specification, each with the MAIN_CONTEXT_LENGTH it
\* runs under: a first message of a session; a long history with long-term
\* memory, an attachment and unfinished TODO items, under a context so small
\* that the setup compacts; a short history with an image.
LoopScenarios ==
    {[context |-> DefaultContextLength,
      request |-> [system |-> 2000, ltm |-> 0, history |-> <<>>, hist_len |-> 0,
                   attachments |-> 0, att_len |-> 0, images |-> 0, user |-> 50,
                   todos |-> FALSE, todo_len |-> 0]],
     [context |-> 100,
      request |-> [system |-> 2000, ltm |-> 500,
                   history |-> <<"system", "user", "assistant", "user",
                                 "assistant", "user", "assistant">>,
                   hist_len |-> 300, attachments |-> 1, att_len |-> 1000,
                   images |-> 0, user |-> 50, todos |-> TRUE, todo_len |-> 400]],
     [context |-> DefaultContextLength,
      request |-> [system |-> 2000, ltm |-> 0, history |-> <<"user", "assistant">>,
                   hist_len |-> 300, attachments |-> 0, att_len |-> 0, images |-> 1,
                   user |-> 50, todos |-> FALSE, todo_len |-> 0]]}

\* what the compact model answers at setup: a summary, or nothing
LoopCompactReplies == {[kind |-> "text", len |-> 20], [kind |-> "empty", len |-> 0]}

InitLoop ==
    /\ InitMemory
    /\ \E s \in LoopScenarios :
         /\ context_length = s.context
         /\ request = s.request
    /\ ratio_env = DefaultRatioPct
    /\ pc = "setup"
    /\ max_iterations \in 0..MaxIter
    /\ save_ltm \in BOOLEAN
    /\ iteration = 0
    /\ events = <<>>
    /\ turn_log = <<>>
    /\ model_calls = 0
    /\ ltm_calls = 0
    /\ calls_left = MaxCalls

\* agent_loop.py:286-420  everything before the while loop
Setup ==
    /\ pc = "setup"
    /\ \E reply \in LoopCompactReplies :
         LET m == add_messages(Mem, SetupMsgs(request))
             r == check_and_compact(m, reply, context_length, ratio_env)
         IN  /\ compact_state' = [called |-> TRUE, compacted |-> r.compacted,
                                  tokens |-> r.tokens, threshold |-> r.threshold,
                                  reply |-> IF r.compacted THEN reply ELSE NoReply,
                                  before |-> m.stm]
             /\ SetMem(add_messages(r.mem, TodoMsgs(request)))
             /\ events' = <<Event("meta", 0, "compact", 0)>> \o TodoEvents(request)
    /\ pc' = "loop"
    /\ iteration' = 0
    /\ UNCHANGED <<context_length, ratio_env, request, max_iterations, save_ltm,
                   turn_log, model_calls, ltm_calls, calls_left>>
    /\ LoopFrame

\* agent_loop.py:421-611  one iteration of the while loop
Iteration ==
    /\ pc = "loop"
    /\ iteration < max_iterations
    /\ \E reply \in ModelReplies(calls_left, CallsIn(turn_log) + 1) :
         /\ calls_left' = calls_left - Len(reply.calls)
         /\ \E outcome \in LtmOutcomes :
              LET it == iteration + 1
                  b  == IterationBody(Mem, reply, it, save_ltm, outcome)
              IN  /\ turn_log' = Append(turn_log,
                                        [iter |-> it, reply |-> reply, how |-> b.how,
                                         from |-> added, to |-> b.mem.added])
                  /\ SetMem(b.mem)
                  /\ events' = events \o b.events
                  /\ pc' = IF b.how = "continue" THEN "loop" ELSE "after"
                  /\ ltm_calls' = IF b.how = "break" /\ save_ltm
                                  THEN ltm_calls + 1 ELSE ltm_calls
    /\ iteration' = iteration + 1
    /\ model_calls' = model_calls + 1
    /\ UNCHANGED <<context_length, ratio_env, compact_state, request,
                   max_iterations, save_ltm>>
    /\ LoopFrame

\* agent_loop.py:613-638  after the while loop
Finish ==
    /\ pc = "after" \/ (pc = "loop" /\ iteration >= max_iterations)
    /\ IF iteration >= max_iterations
       THEN \E outcome \in LtmOutcomes :
              /\ SetMem(save_to_disk(Mem))
              /\ events' = events \o <<Event("content", 0, "warning", 0)>>
                                  \o LtmEventsAfterLoop(save_ltm, outcome)
                                  \o YieldDone
              /\ ltm_calls' = IF save_ltm THEN ltm_calls + 1 ELSE ltm_calls
       ELSE /\ events' = events \o YieldDone
            /\ UNCHANGED <<short_term_memory, mid_term_summary, added, disk, saves,
                           ltm_calls>>
    /\ pc' = "done"
    /\ UNCHANGED <<context_length, ratio_env, compact_state, request,
                   max_iterations, save_ltm, iteration, turn_log, model_calls,
                   calls_left>>
    /\ LoopFrame

NextLoop == Setup \/ Iteration \/ Finish

InitLoopSpec ==
    InitLoop /\ IdleTrunc /\ IdleBatch /\ IdleTodo /\ IdleSub /\ IdleTodoCall /\ IdleReport
    /\ IdleStore
    /\ IdleExec
    /\ IdleHttp
    /\ IdleRuns
    /\ IdleRate

\* ------------------------------------------------------------------------
\* Specification SpecLoop: one run of agent_main_loop for every request of
\* LoopScenarios and every sequence of model replies within the bounds.
\* FairSpecLoop: the same, when every model call and tool call returns.
\* ------------------------------------------------------------------------
SpecLoop == InitLoopSpec /\ [][NextLoop]_vars

FairSpecLoop == SpecLoop /\ WF_vars(NextLoop)

\* ---- two runs of one session -------------------------------------------
\* The requests of the second run: the new user message alone, or with the
\* two messages of history the front end sends along.
SecondRequests ==
    {[system |-> 2000, ltm |-> 0, history |-> <<>>, hist_len |-> 0,
      attachments |-> 0, att_len |-> 0, images |-> 0, user |-> 70,
      todos |-> FALSE, todo_len |-> 0],
     [system |-> 2000, ltm |-> 0, history |-> <<"user", "assistant">>,
      hist_len |-> 300, attachments |-> 0, att_len |-> 0, images |-> 0,
      user |-> 70, todos |-> FALSE, todo_len |-> 0]}

\* agent_loop.py:286-288, memory.py:108-124  agent_main_loop is called again
\* with the session_id of the run that ended: MemoryManager(session_id=...)
\* starts from an empty short-term memory and no summary (load_history is
\* left at False); the conversation file of the session stays as it is.
NextRun ==
    /\ pc = "done"
    /\ run_no = 1
    /\ run_no' = 2
    /\ first_disk' = disk
    /\ short_term_memory' = <<>>
    /\ mid_term_summary' = NoText
    /\ added' = 0
    /\ saves' = 0
    /\ compact_state' = NoCompactState
    /\ request' \in SecondRequests
    /\ pc' = "setup"
    /\ iteration' = 0
    /\ events' = <<>>
    /\ turn_log' = <<>>
    /\ model_calls' = 0
    /\ ltm_calls' = 0
    /\ UNCHANGED <<disk, context_length, ratio_env, max_iterations, save_ltm,
                   calls_left>>
    /\ RunsFrame

NextRuns == Setup \/ Iteration \/ Finish \/ NextRun

InitRunsSpec ==
    InitLoop /\ IdleTrunc /\ IdleBatch /\ IdleTodo /\ IdleSub /\ IdleTodoCall /\ IdleReport
    /\ IdleStore
    /\ IdleExec
    /\ IdleHttp
    /\ run_no = 1
    /\ first_disk = NotSaved
    /\ IdleRate

\* ------------------------------------------------------------------------
\* Specification SpecRuns: two runs of agent_main_loop, one after the other,
\* with the same session_id.
\* ------------------------------------------------------------------------
SpecRuns == InitRunsSpec /\ [][NextRuns]_vars

\* ------------------------------------------------------------------------
\* TodoStore (services/todo_store.py): the TODO file of one session, a list
\* of items [id, agent_type, status, priority, order, updated_at,
\* previous_status] (schemas/todo.py:45-55). Ids are given in the order the
\* items are created; time.time() is a clock that each write advances.
\* ------------------------------------------------------------------------
Todo(id, agent_type, status, priority, order, now) ==
    [id |-> id, agent_type |-> agent_type, status |-> status, priority |-> priority,
     order |-> order, updated_at |-> now, previous_status |-> "none"]

\* todo_store.py:58-62
StatusRank(s) ==
    CASE s = "in_progress" -> 3 [] s = "pending" -> 2 [] s = "completed" -> 1 [] OTHER -> 0
\* todo_store.py:64-68
PriorityRank(p) ==
    CASE p = "high" -> 3 [] p = "medium" -> 2 [] p = "low" -> 1 [] OTHER -> 0

\* todo_store.py:70-75  sort_key(a) < sort_key(b)
SortsBefore(a, b) ==
    \/ StatusRank(a.status) > StatusRank(b.status)
    \/ /\ StatusRank(a.status) = StatusRank(b.status)
       /\ \/ PriorityRank(a.priority) > PriorityRank(b.priority)
          \/ /\ PriorityRank(a.priority) = PriorityRank(b.priority)
             /\ a.updated_at > b.updated_at

\* todo_store.py:77  sorted() is stable: an item goes to position k when k - 1
\* items sort before it or tie with it from an earlier place
_smart_sort_todos(todos) ==
    LET place(i) == 1 + Cardinality({j \in 1..Len(todos) :
                          \/ SortsBefore(todos[j], todos[i])
                          \/ (~SortsBefore(todos[i], todos[j]) /\ j < i)})
    IN  [k \in 1..Len(todos) |-> todos[CHOOSE i \in 1..Len(todos) : place(i) = k]]

\* todo_store.py:120-132
list_todos(store) == _smart_sort_todos(store)

\* todo_store.py:135-160
create_todo(store, status, priority, agent_type, id, now) ==
    Append(store, Todo(id, agent_type, status, priority, Len(store), now))

\* todo_store.py:163-196, a faulty variant: previous_status is not recorded
update_todoUntracked(store, id, status, now) ==
    LET hits == {i \in 1..Len(store) : store[i].id = id}
    IN  IF hits = {} THEN store
        ELSE LET i == CHOOSE h \in hits : \A g \in hits : h <= g
             IN  [store EXCEPT ![i] = [@ EXCEPT !.status = IF status # "none" THEN status ELSE @,
                                                !.updated_at = now]]

\* todo_store.py:163-196  update with a payload that carries a status, or no
\* status ("none": only title, description or priority, which are not kept here)
update_todo(store, id, status, now) ==
    LET hits == {i \in 1..Len(store) : store[i].id = id}
    IN  IF hits = {} THEN store
        ELSE LET i == CHOOSE h \in hits : \A g \in hits : h <= g
             IN  [store EXCEPT ![i] =
                     [@ EXCEPT !.previous_status =
                                   IF status # "none" /\ store[i].status # status
                                   THEN store[i].status ELSE @,
                               !.status = IF status # "none" THEN status ELSE @,
                               !.updated_at = now]]

\* todo_store.py:199-219  delete_todo: every item with the id goes and the
\* others are renumbered; a file without the id is not written
delete_todo(store, id) ==
    LET new_list == SelectSeq(store, LAMBDA t : t.id # id)
    IN  IF Len(new_list) = Len(store) THEN store
        ELSE [k \in 1..Len(new_list) |-> [new_list[k] EXCEPT !.order = k - 1]]

\* todo_store.py:222-254, a faulty variant: the items not named come first
reorder_todosOthersFirst(store, ids, now, step) ==
    LET known(id) == \E i \in 1..Len(store) : store[i].id = id
        item(id)  == store[CHOOSE i \in 1..Len(store) : store[i].id = id]
        picked    == SelectSeq(ids, known)
    IN  SelectSeq(store, LAMBDA t : \A p \in 1..Len(ids) : ids[p] # t.id)
        \o [k \in 1..Len(picked) |-> item(picked[k])]

\* todo_store.py:222-254  reorder_todos(order = ids). time.time() is read once
\* per item written: the k-th reading gives now + step * (k - 1), step = 0
\* when the clock does not move during the call.
\*   id_to_item keeps, of the items with one id, the last one of the file;
\*   an id given more than once appends its item each time, and the item
\*   (one dict) ends with the order and the time of the last time;
\*   the items not named follow in the order of the file.
reorder_todos(store, ids, now, step) ==
    LET known(id)  == \E i \in 1..Len(store) : store[i].id = id
        item(id)   == store[CHOOSE i \in 1..Len(store) :
                               /\ store[i].id = id
                               /\ \A j \in 1..Len(store) : store[j].id = id => j <= i]
        positions  == SelectSeq([p \in 1..Len(ids) |-> p], LAMBDA p : known(ids[p]))
        last(id)   == CHOOSE q \in 1..Len(ids) :
                         /\ ids[q] = id
                         /\ \A r \in 1..Len(ids) : ids[r] = id => r <= q
        reading(q) == Cardinality({k \in 1..Len(positions) : positions[k] <= q})
        named      == [k \in 1..Len(positions) |->
                         LET id == ids[positions[k]]
                         IN  [item(id) EXCEPT
                                 !.order = last(id) - 1,
                                 !.updated_at = now + step * (reading(last(id)) - 1)]]
        used(id)   == \E p \in 1..Len(ids) : ids[p] = id
        others     == SelectSeq(store, LAMBDA t : ~used(t.id))
        rest       == [j \in 1..Len(others) |->
                         [others[j] EXCEPT
                             !.order = Len(named) + j - 1,
                             !.updated_at = now + step * (Len(named) + j - 1)]]
    IN  named \o rest

\* readings of time.time() in one reorder_todos call
ReorderWrites(store, ids) ==
    Cardinality({p \in 1..Len(ids) : \E i \in 1..Len(store) : store[i].id = ids[p]})
    + Cardinality({i \in 1..Len(store) : \A p \in 1..Len(ids) : ids[p] # store[i].id})

\* ------------------------------------------------------------------------
\* SubAgent (core/subagent.py).
\* A tool call of a sub-agent's model is [id, name, args, index, status]:
\*   name   : "create_subagent_todo", "update_subagent_todo", "tool" (a tool
\*            the sub-agent registered), "tavily_search" (registered, heavy),
\*            "nope" (not registered)
\*   args   : "object" | "badjson" | "nonobject", as for Call
\*   index, status : the arguments of update_subagent_todo
\* An item of self.todos is [status, todo_id], todo_id 0 when it has no
\* "_todo_id".
\* ------------------------------------------------------------------------
SubCall(id, name, args, index, status) ==
    [id |-> id, name |-> name, args |-> args, index |-> index, status |-> status]

\* subagent.py:463-469 and 352-357
AgentTypeOf(name) ==
    CASE name = "SearchSubAgent" -> "search"
      [] name = "BrowserSubAgent" -> "browser"
      [] name = "WindowsSubAgent" -> "windows"
      [] OTHER -> "custom"

\* schemas/todo.py:10-13
TodoStatuses == {"pending", "in_progress", "completed"}

\* subagent.py:472-489, 319-336  the unfinished items of one agent type, in
\* the order list_todos returns them, as self.todos holds them
ActiveTodosOf(store, agent_type) ==
    LET active == SelectSeq(list_todos(store),
                            LAMBDA t : /\ t.agent_type = agent_type
                                       /\ t.status \in {"pending", "in_progress"})
    IN  [i \in 1..Len(active) |-> [status |-> active[i].status, todo_id |-> active[i].id]]

\* subagent.py:543
IsHeavy(call) == call.name = "tavily_search"

\* subagent.py:548-552  SUBAGENT_MAX_HEAVY_CALLS_PER_ITER
MaxHeavy(env) == IF env.kind = "int" THEN env.val ELSE 1

\* subagent.py:537-554  tool_calls = light + heavy[: max(1, max_heavy)]
AdmittedCalls(calls, env) ==
    LET heavy == SelectSeq(calls, IsHeavy)
        light == SelectSeq(calls, LAMBDA c : ~IsHeavy(c))
    IN  light \o SubSeq(heavy, 1, Min(Len(heavy), Max(1, MaxHeavy(env))))

\* subagent.py:523
ToolChoice(it) == IF it <= 2 THEN "required" ELSE "auto"

\* subagent.py:214  the items the report completes
CompletedAtExit(t) == t.status = "in_progress" /\ t.todo_id # 0

\* subagent.py:213-215  self.todos after the clean-up of the report
TodosAfterReport(todos) ==
    [i \in 1..Len(todos) |->
        IF CompletedAtExit(todos[i]) THEN [todos[i] EXCEPT !.status = "completed"]
        ELSE todos[i]]

RECURSIVE StoreAfterReport(_, _, _)
\* subagent.py:213-220  update_todo for each such item, in order
StoreAfterReport(store, todos, now) ==
    IF todos = <<>> THEN store
    ELSE IF CompletedAtExit(Head(todos))
    THEN StoreAfterReport(update_todo(store, Head(todos).todo_id, "completed", now),
                          Tail(todos), now + 1)
    ELSE StoreAfterReport(store, Tail(todos), now)

WritesAtReport(todos) == Cardinality({i \in 1..Len(todos) : CompletedAtExit(todos[i])})

\* subagent.py:259-276  length of the summary of the report; `quick` is what
\* the quick model answered
SummaryLen(content, quick) ==
    IF content > 500 THEN ChatContent(quick).len ELSE content

\* subagent.py:256-257, 278-287  the compact report
CompactReport(name, todos, content, quick, it) ==
    [error |-> FALSE, kind |-> "report", subagent |-> name,
     summary |-> SummaryLen(content, quick),
     todos_completed |-> Cardinality({i \in 1..Len(todos) : todos[i].status = "completed"}),
     todos_total |-> Len(todos), iterations |-> it]

\* subagent.py:628-636
MaxIterationsResult(name, todos, max_it) ==
    [error |-> TRUE, kind |-> "max_iterations", subagent |-> name, summary |-> 0,
     todos_completed |-> 0, todos_total |-> Len(todos), iterations |-> max_it]

\* subagent.py:638-645
\* execute without its outer except: the exception reaches the caller
ExceptionRaised(name) ==
    [error |-> TRUE, kind |-> "raised", subagent |-> name, summary |-> 0,
     todos_completed |-> 0, todos_total |-> 0, iterations |-> 0]

ExceptionResult(name) ==
    [error |-> TRUE, kind |-> "exception", subagent |-> name, summary |-> 0,
     todos_completed |-> 0, todos_total |-> 0, iterations |-> 0]

\* subagent.py:317-326  the reuse check is made by SearchSubAgent only
ReusesTodos(name, store) ==
    name = "SearchSubAgent" /\ ActiveTodosOf(store, "search") # <<>>

\* subagent.py:312-440  _execute_tool for a call whose arguments parsed:
\* self.todos and the store afterwards, the ids and clock ticks used, and
\* the body of the result
SubExecuteTool(name, call, todos, store, next_id, now) ==
    LET same(body) == [todos |-> todos, store |-> store, ids |-> 0, ticks |-> 0,
                       body |-> body]
    IN  IF call.name = "create_subagent_todo"
        THEN IF ReusesTodos(name, store)
             THEN [todos |-> ActiveTodosOf(store, "search"), store |-> store,
                   ids |-> 0, ticks |-> 0, body |-> "skipped"]
             ELSE IF call.args = "nonobject" THEN same("failure_error")
             ELSE [todos |-> <<[status |-> "pending", todo_id |-> next_id]>>,
                   store |-> create_todo(store, "pending", "medium",
                                         AgentTypeOf(name), next_id, now),
                   ids |-> 1, ticks |-> 1, body |-> "ok"]
        ELSE IF call.name = "update_subagent_todo"
        THEN IF call.args = "nonobject" THEN same("failure_error")
             ELSE IF 0 <= call.index /\ call.index < Len(todos)
             THEN LET i  == call.index + 1
                      ts == [todos EXCEPT ![i].status = call.status]
                  IN  IF todos[i].todo_id = 0
                      THEN [todos |-> ts, store |-> store, ids |-> 0, ticks |-> 0,
                            body |-> "ok"]
                      ELSE IF call.status \notin TodoStatuses
                      THEN \* TodoUpdate(status=...) raises: subagent.py:433-440
                           [todos |-> ts, store |-> store, ids |-> 0, ticks |-> 0,
                            body |-> "failure_error"]
                      ELSE [todos |-> ts,
                            store |-> update_todo(store, todos[i].todo_id, call.status, now),
                            ids |-> 0, ticks |-> 1, body |-> "ok"]
             ELSE same("index_error")
        ELSE IF call.name \in {"tool", "tavily_search"}
        THEN same(IF call.args = "nonobject" THEN "failure_error" ELSE "ok")
        ELSE same("unknown_tool")

\* ---- one sub-agent run step by step -----------------------------------
SubMsg(role, kind, len, calls, tcid) == Msg(role, kind, len, calls, tcid, Len(s_memory) + 1)

SubCallsSoFar == MaxSubCalls - s_calls_left

\* The calls a sub-agent's model may return.
SubCallShapes ==
    {[name |-> "create_subagent_todo", args |-> "object", index |-> 0, status |-> ""],
     [name |-> "update_subagent_todo", args |-> "object", index |-> 0, status |-> "in_progress"],
     [name |-> "update_subagent_todo", args |-> "object", index |-> 0, status |-> "completed"],
     [name |-> "update_subagent_todo", args |-> "object", index |-> 0, status |-> "done"],
     [name |-> "tool", args |-> "object", index |-> 0, status |-> ""],
     [name |-> "tavily_search", args |-> "object", index |-> 0, status |-> ""],
     [name |-> "nope", args |-> "object", index |-> 0, status |-> ""],
     [name |-> "tool", args |-> "badjson", index |-> 0, status |-> ""]}

SubCallSeqs(n, first) ==
    {[i \in 1..n |-> SubCall(first + i - 1, shapes[i].name, shapes[i].args,
                             shapes[i].index, shapes[i].status)] :
        shapes \in [1..n -> SubCallShapes]}

\* what the sub-agent's model may answer: a content alone (none, short, of
\* 300 characters, longer than the 500 characters above which the report asks
\* for a summary),
\* or a short content with up to `budget` tool calls
SubReplies(budget, first) ==
    {[kind |-> c.kind, len |-> c.len, calls |-> <<>>] :
        c \in {[kind |-> "empty", len |-> 0], [kind |-> "text", len |-> 100],
               [kind |-> "text", len |-> 300], [kind |-> "text", len |-> 501]}}
    \cup {[kind |-> "text", len |-> 100, calls |-> calls] :
             calls \in UNION {SubCallSeqs(n, first) : n \in 1..budget}}

\* what the quick model may answer when asked for a summary
QuickReplies == {[kind |-> "text", len |-> 150], [kind |-> "text", len |-> 400]}

SubAgentNames == {"SearchSubAgent", "BrowserSubAgent", "WindowsSubAgent", "CustomSubAgent"}

\* The TODO file of the session when the run starts: empty, or holding an
\* item in progress and a pending item of the given agent type and an item
\* in progress of the main agent.
InitialStores(agent_type) ==
    {<<>>,
     <<Todo(1, agent_type, "in_progress", "medium", 0, 1),
       Todo(2, agent_type, "pending", "medium", 1, 2),
       Todo(3, "main", "in_progress", "medium", 2, 3)>>}

HeavyEnvs == {EnvUnset, EnvInt(0), EnvInt(2)}

\* The runs of the specification: every kind of sub-agent on each TODO file
\* with SUBAGENT_MAX_HEAVY_CALLS_PER_ITER unset, and one kind on an empty
\* TODO file under every value of that variable.
SubScenarios ==
    {[name |-> n, store |-> st, max_heavy |-> EnvUnset] :
        n \in SubAgentNames, st \in InitialStores("search") \cup InitialStores("browser")
                                   \cup InitialStores("windows") \cup InitialStores("custom")}
    \cup {[name |-> "SearchSubAgent", store |-> <<>>, max_heavy |-> e] : e \in HeavyEnvs}

InitSub ==
    /\ s_pc = "start"
    /\ \E sc \in SubScenarios :
         /\ sc.store \in InitialStores(AgentTypeOf(sc.name))
         /\ s_name = sc.name
         /\ s_max_heavy = sc.max_heavy
         /\ todo_store = sc.store
    /\ s_max_iterations \in 1..MaxSubIter
    /\ s_iteration = 0
    /\ s_todos = <<>>
    /\ s_memory = <<>>
    /\ s_pending = <<>>
    /\ s_result = NoSubResult
    /\ s_log = <<>>
    /\ s_calls_left = MaxSubCalls
    /\ todo_next_id = Len(todo_store) + 1
    /\ todo_clock = Len(todo_store) + 1

\* subagent.py:452-514  execute up to the while loop
SubStart ==
    /\ s_pc = "start"
    /\ s_todos' = ActiveTodosOf(todo_store, AgentTypeOf(s_name))
    /\ s_memory' = <<Msg("system", "system_prompt", 1000, NoCalls, 0, 1),
                     Msg("user", "task", 200, NoCalls, 0, 2)>>
    /\ s_pc' = "loop"
    /\ UNCHANGED <<s_name, s_max_iterations, s_max_heavy, s_iteration, s_pending,
                   s_result, s_log, s_calls_left, todoVars>>
    /\ SubFrame

\* subagent.py:516-591  the model is called; its reply ends the run, is
\* answered by the reminder, or leaves tool calls to execute
SubCallModel ==
    /\ s_pc = "loop"
    /\ s_iteration < s_max_iterations
    /\ s_iteration' = s_iteration + 1
    /\ \E reply \in SubReplies(s_calls_left, SubCallsSoFar + 1) :
         LET it       == s_iteration + 1
             admitted == AdmittedCalls(reply.calls, s_max_heavy)
         IN  /\ s_calls_left' = s_calls_left - Len(reply.calls)
             /\ s_log' = Append(s_log, [iter |-> it, tool_choice |-> ToolChoice(it),
                                        reply |-> reply, admitted |-> admitted])
             /\ IF admitted = <<>> /\ ToolChoice(it) = "required"
                THEN /\ s_memory' = Append(s_memory,
                                           SubMsg("system", "reminder", 60, NoCalls, 0))
                     /\ s_pc' = "loop"
                     /\ UNCHANGED <<s_todos, s_pending, s_result, todoVars>>
                ELSE IF admitted = <<>>
                THEN \E quick \in QuickReplies :
                       /\ s_memory' = IF reply.len > 0
                                      THEN Append(s_memory, SubMsg("assistant", "content",
                                                                   reply.len, NoCalls, 0))
                                      ELSE s_memory
                       /\ s_todos' = TodosAfterReport(s_todos)
                       /\ todo_store' = StoreAfterReport(todo_store, s_todos, todo_clock)
                       /\ todo_clock' = todo_clock + WritesAtReport(s_todos)
                       /\ s_result' = CompactReport(s_name, TodosAfterReport(s_todos),
                                                    reply.len, quick, it)
                       /\ s_pc' = "returned"
                       /\ UNCHANGED <<s_pending, todo_next_id>>
                ELSE /\ s_memory' = Append(s_memory, SubMsg("assistant", "tool_calls",
                                                            reply.len, admitted, 0))
                     /\ s_pending' = admitted
                     /\ s_pc' = "tools"
                     /\ UNCHANGED <<s_todos, s_result, todoVars>>
    /\ UNCHANGED <<s_name, s_max_iterations, s_max_heavy>>
    /\ SubFrame

\* subagent.py:594-613  the next admitted call is executed and answered
SubExecTool ==
    /\ s_pc = "tools"
    /\ s_pending # <<>>
    /\ LET call == Head(s_pending)
       IN  IF call.args = "badjson"
           THEN \* subagent.py:596  json.loads raises, out to subagent.py:638
                /\ s_result' = ExceptionResult(s_name)
                /\ s_pc' = "returned"
                /\ UNCHANGED <<s_todos, s_memory, s_pending, todoVars>>
           ELSE LET r == SubExecuteTool(s_name, call, s_todos, todo_store,
                                        todo_next_id, todo_clock)
                IN  /\ s_todos' = r.todos
                    /\ todo_store' = r.store
                    /\ todo_next_id' = todo_next_id + r.ids
                    /\ todo_clock' = todo_clock + r.ticks
                    /\ s_memory' = Append(s_memory,
                                          SubMsg("tool", r.body, 100, NoCalls, call.id))
                    /\ s_pending' = Tail(s_pending)
                    /\ s_pc' = IF Tail(s_pending) = <<>> THEN "loop" ELSE "tools"
                    /\ UNCHANGED s_result
    /\ UNCHANGED <<s_name, s_max_iterations, s_max_heavy, s_iteration, s_log,
                   s_calls_left>>
    /\ SubFrame

\* subagent.py:626-636  the while loop ran out
SubMaxIterations ==
    /\ s_pc = "loop"
    /\ s_iteration >= s_max_iterations
    /\ s_result' = MaxIterationsResult(s_name, s_todos, s_max_iterations)
    /\ s_pc' = "returned"
    /\ UNCHANGED <<s_name, s_max_iterations, s_max_heavy, s_iteration, s_todos,
                   s_memory, s_pending, s_log, s_calls_left, todoVars>>
    /\ SubFrame

NextSub == SubStart \/ SubCallModel \/ SubExecTool \/ SubMaxIterations

InitSubSpec ==
    InitSub /\ IdleMemory /\ IdleTrunc /\ IdleBatch /\ IdleLoop /\ IdleTodoCall /\ IdleReport
    /\ IdleStore
    /\ IdleExec
    /\ IdleHttp
    /\ IdleRuns
    /\ IdleRate

\* ------------------------------------------------------------------------
\* Specification SpecSub: one run of SubAgent.execute for every kind of
\* sub-agent, on an empty TODO file and on one that holds unfinished items.
\* ------------------------------------------------------------------------
SpecSub == InitSubSpec /\ [][NextSub]_vars

\* FairSpecSub: the same, when every model call and tool call returns.
FairSpecSub == SpecSub /\ WF_vars(NextSub)

\* ------------------------------------------------------------------------
\* Specification SpecTodo: calls of create_todo, update_todo, delete_todo and
\* reorder_todos on the TODO file of one session, one after the other,
\* starting from a file that earlier create_todo calls wrote.
\* ------------------------------------------------------------------------
\* The TODO file after n create_todo calls, each item pending or in progress.
TodoFiles ==
    UNION {{[i \in 1..n |-> Todo(i, "main", st[i], "medium", i - 1, i)] :
               st \in [1..n -> {"pending", "in_progress"}]} : n \in 0..MaxTodos}

\* the ids a caller may name: those of the file, and 0, the id of no item
TodoIds(store) == {store[i].id : i \in 1..Len(store)} \cup {0}

\* the id lists a caller may give to reorder_todos
ReorderLists(store) ==
    UNION {[1..n -> TodoIds(store)] : n \in 0..MaxReorderIds}

TodoCall(op, id, ids, found) == [op |-> op, id |-> id, ids |-> ids, found |-> found]

InitTodo ==
    /\ todo_store \in TodoFiles
    /\ todo_next_id = Len(todo_store) + 1
    /\ todo_clock = Len(todo_store) + 1
    /\ todo_call = NoTodoCall
    /\ todo_ops = 0

\* todo_store.py:135-160
CreateTodo ==
    /\ todo_ops < MaxTodoOps
    /\ Len(todo_store) < MaxTodos
    /\ \E status \in TodoStatuses, priority \in {"medium", "high"} :
         todo_store' = create_todo(todo_store, status, priority, "main",
                                   todo_next_id, todo_clock)
    /\ todo_next_id' = todo_next_id + 1
    /\ todo_clock' = todo_clock + 1
    /\ todo_call' = TodoCall("create", todo_next_id, <<>>, TRUE)
    /\ todo_ops' = todo_ops + 1
    /\ TodoFrame

\* todo_store.py:163-196
UpdateTodo ==
    /\ todo_ops < MaxTodoOps
    /\ \E id \in TodoIds(todo_store), status \in TodoStatuses \cup {"none"} :
         /\ todo_store' = update_todo(todo_store, id, status, todo_clock)
         /\ todo_call' = TodoCall("update", id, <<>>, id # 0)
    /\ todo_clock' = todo_clock + 1
    /\ todo_ops' = todo_ops + 1
    /\ UNCHANGED todo_next_id
    /\ TodoFrame

\* todo_store.py:199-219
DeleteTodo ==
    /\ todo_ops < MaxTodoOps
    /\ \E id \in TodoIds(todo_store) :
         /\ todo_store' = delete_todo(todo_store, id)
         /\ todo_call' = TodoCall("delete", id, <<>>, id # 0)
    /\ todo_clock' = todo_clock + 1
    /\ todo_ops' = todo_ops + 1
    /\ UNCHANGED todo_next_id
    /\ TodoFrame

\* todo_store.py:222-254
ReorderTodos ==
    /\ todo_ops < MaxTodoOps
    /\ \E ids \in ReorderLists(todo_store), step \in {0, 1} :
         /\ todo_store' = reorder_todos(todo_store, ids, todo_clock, step)
         /\ todo_clock' = todo_clock + 1
                            + step * Max(0, ReorderWrites(todo_store, ids) - 1)
         /\ todo_call' = TodoCall("reorder", 0, ids, TRUE)
    /\ todo_ops' = todo_ops + 1
    /\ UNCHANGED todo_next_id
    /\ TodoFrame

NextTodo == CreateTodo \/ UpdateTodo \/ DeleteTodo \/ ReorderTodos

InitTodoSpec ==
    InitTodo /\ IdleMemory /\ IdleTrunc /\ IdleBatch /\ IdleLoop /\ IdleSub /\ IdleReport
    /\ IdleStore
    /\ IdleExec
    /\ IdleHttp
    /\ IdleRuns
    /\ IdleRate

SpecTodo == InitTodoSpec /\ [][NextTodo]_vars

\* ------------------------------------------------------------------------
\* ReportStore (services/report_store.py): the reports SearchSubAgent saves.
\* A report file is [id, content]; the id is [stamp, hash], the clock second
\* of the save and the hash of the task description; the content is what
\* _generate_report_markdown builds from the id, the task, the summary and
\* the clock.
\* ------------------------------------------------------------------------
\* subagent_search.py:200  the task description every SearchSubAgent run passes
SearchTask == "SearchSubAgent execution"

\* report_store.py:50  hashlib.md5(task_description.encode()).hexdigest()[:8]:
\* the same digits for the same description
TaskHash(task) == IF task = SearchTask THEN "md5_search" ELSE "md5_other"

\* report_store.py:43-51  timestamp to the second, then the hash
_generate_report_id(task, now) == [stamp |-> now, hash |-> TaskHash(task)]

\* report_store.py:54-187  the Markdown text, by what it is built from
_generate_report_markdown(id, task, summary, now) ==
    [id |-> id, task |-> task, summary |-> summary, time |-> now]

\* report_store.py:191-242  save_report: the id it returns and the files
\* afterwards; open(path, "w") replaces a file of the same name
save_report(files, task, summary, now) ==
    LET id      == _generate_report_id(task, now)
        content == _generate_report_markdown(id, task, summary, now)
    IN  [id |-> id, content |-> content,
         files |-> {f \in files : f.id # id} \cup {[id |-> id, content |-> content]}]

NoReport == [id |-> [stamp |-> 0, hash |-> ""], task |-> "", summary |-> "", time |-> 0]

\* report_store.py:245-264  read_report, NoReport standing for None
read_report(files, id) ==
    IF \E f \in files : f.id = id
    THEN (CHOOSE f \in files : f.id = id).content
    ELSE NoReport

ReportTasks == {SearchTask, "other task"}
ReportSummaries == {"summary A", "summary B"}

InitReport ==
    /\ r_now \in 0..MaxSecond
    /\ r_files = {}
    /\ r_saves = <<>>

\* subagent_search.py:196-216, report_store.py:191-242  one save_report call
SaveReport ==
    /\ Len(r_saves) < MaxSaves
    /\ \E task \in ReportTasks, summary \in ReportSummaries :
         LET r == save_report(r_files, task, summary, r_now)
         IN  /\ r_files' = r.files
             /\ r_saves' = Append(r_saves, [id |-> r.id, content |-> r.content])
    /\ UNCHANGED r_now
    /\ ReportFrame

\* the clock reaches the next second
ClockTick ==
    /\ r_now < MaxSecond
    /\ r_now' = r_now + 1
    /\ UNCHANGED <<r_files, r_saves>>
    /\ ReportFrame

NextReport == SaveReport \/ ClockTick

InitReportSpec ==
    InitReport /\ IdleMemory /\ IdleTrunc /\ IdleBatch /\ IdleLoop /\ IdleTodo /\ IdleSub
    /\ IdleTodoCall
    /\ IdleStore
    /\ IdleExec
    /\ IdleHttp
    /\ IdleRuns
    /\ IdleRate

\* ------------------------------------------------------------------------
\* Specification SpecReport: save_report calls at any seconds of the clock.
\* ------------------------------------------------------------------------
SpecReport == InitReportSpec /\ [][NextReport]_vars

\* ------------------------------------------------------------------------
\* TodoStore under overlapping calls (services/todo_store.py). The module
\* takes no lock ("无锁", todo_store.py:1): a call is _load, the change of
\* the loaded dict, and _save, which opens the file with mode "w" (the file
\* is empty from then on) and writes the dict with json.dump. The callers
\* are Writers, each making one call on the same session from a thread or a
\* process of its own, so that the statements of their calls interleave; one
\* more caller makes one list_todos call.
\* A call is [op, id, ids]; the file is todo_store.
\* ------------------------------------------------------------------------
Writers == 1..MaxWriters

StoreCall(op, id, ids) == [op |-> op, id |-> id, ids |-> ids]

\* todo_store.py:146 uuid4, 144 / 190 / 242 time.time(), per caller
NewId(p) == MaxTodos + p
NowOf(p) == MaxTodos + 1 + p

\* todo_store.py:135-254  the dict of caller p's call after the change
ChangedData(p, call, data) ==
    CASE call.op = "create"  -> create_todo(data, "pending", "medium", "main", NewId(p), NowOf(p))
      [] call.op = "update"  -> update_todo(data, call.id, "completed", NowOf(p))
      [] call.op = "delete"  -> delete_todo(data, call.id)
      [] call.op = "reorder" -> reorder_todos(data, call.ids, NowOf(p), 0)

\* todo_store.py:159, 193-194, 212-213, 252  whether the call reaches _save
CallSaves(call, data) ==
    \/ call.op \in {"create", "reorder"}
    \/ \E i \in 1..Len(data) : data[i].id = call.id

\* the calls made on a file: a create, an update or a delete of any of its
\* items, and the reorder that reverses it
StoreCalls(file) ==
    {StoreCall("create", 0, <<>>)}
    \cup {StoreCall(op, file[i].id, <<>>) : op \in {"update", "delete"}, i \in 1..Len(file)}
    \cup {StoreCall("reorder", 0, [k \in 1..Len(file) |-> file[Len(file) + 1 - k].id])}

InitStore ==
    /\ todo_store \in TodoFiles
    /\ todo_next_id = Len(todo_store) + 1
    /\ todo_clock = Len(todo_store) + 1
    /\ w_file0 = todo_store
    /\ w_op \in [Writers -> StoreCalls(todo_store)]
    /\ w_pc = [p \in Writers |-> "start"]
    /\ w_data = [p \in Writers |-> <<>>]
    /\ w_partial = FALSE
    /\ w_seen = "none"

\* todo_store.py:80-104  _load of a whole file, then the change of the dict
WLoad(p) ==
    /\ w_pc[p] = "start"
    /\ ~w_partial
    /\ w_data' = [w_data EXCEPT ![p] = ChangedData(p, w_op[p], todo_store)]
    /\ w_pc' = [w_pc EXCEPT ![p] =
                   IF CallSaves(w_op[p], todo_store) THEN "loaded" ELSE "done"]
    /\ UNCHANGED <<w_op, w_partial, w_file0, w_seen, todoVars>>
    /\ StoreFrame

\* todo_store.py:92-93  json.load of a file that is being written raises
WLoadFails(p) ==
    /\ w_pc[p] = "start"
    /\ w_partial
    /\ w_pc' = [w_pc EXCEPT ![p] = "failed"]
    /\ UNCHANGED <<w_op, w_data, w_partial, w_file0, w_seen, todoVars>>
    /\ StoreFrame

\* todo_store.py:116  open(session_file, "w") empties the file
WOpen(p) ==
    /\ w_pc[p] = "loaded"
    /\ todo_store' = <<>>
    /\ w_partial' = TRUE
    /\ w_pc' = [w_pc EXCEPT ![p] = "opened"]
    /\ UNCHANGED <<w_op, w_data, w_file0, w_seen, todo_next_id, todo_clock>>
    /\ StoreFrame

\* todo_store.py:117  json.dump and the close of the file
WDump(p) ==
    /\ w_pc[p] = "opened"
    /\ todo_store' = w_data[p]
    /\ w_partial' = FALSE
    /\ w_pc' = [w_pc EXCEPT ![p] = "done"]
    /\ UNCHANGED <<w_op, w_data, w_file0, w_seen, todo_next_id, todo_clock>>
    /\ StoreFrame

\* todo_store.py:120-132  one list_todos call of a reader
ReadList ==
    /\ w_seen = "none"
    /\ w_seen' = IF w_partial THEN "partial" ELSE "list"
    /\ UNCHANGED <<w_op, w_pc, w_data, w_partial, w_file0, todoVars>>
    /\ StoreFrame

NextStore ==
    \/ \E p \in Writers : WLoad(p)
    \/ \E p \in Writers : WLoadFails(p)
    \/ \E p \in Writers : WOpen(p)
    \/ \E p \in Writers : WDump(p)
    \/ ReadList

InitStoreSpec ==
    InitStore /\ IdleMemory /\ IdleTrunc /\ IdleBatch /\ IdleLoop /\ IdleSub
    /\ IdleTodoCall /\ IdleReport
    /\ IdleExec
    /\ IdleHttp
    /\ IdleRuns
    /\ IdleRate

\* ------------------------------------------------------------------------
\* Specification SpecStore: MaxWriters overlapping calls on one TODO file and
\* one reader.
\* ------------------------------------------------------------------------
SpecStore == InitStoreSpec /\ [][NextStore]_vars

\* ------------------------------------------------------------------------
\* ToolManager.execute_tool (tools/manager.py:496-583), one call.
\* A tool name is the sequence of the words its underscores separate:
\* "search_subagent" is <<"search", "subagent">>. Times are in half seconds,
\* so that a _timeout of 0.5 can be given.
\* ------------------------------------------------------------------------
\* manager.py:530-532
DefaultToolTimeout == 120
\* manager.py:536
NoEffectiveTimeout == 1000000000

HalfSeconds(seconds) == 2 * seconds

\* manager.py:75-79 and 554
TodoToolNames ==
    {<<"list", "todos">>, <<"create", "todo">>, <<"update", "todo">>,
     <<"delete", "todo">>, <<"reorder", "todos">>}

\* manager.py:57-90  the tools of the manager this model follows
ManagerTools ==
    TodoToolNames
    \cup {<<"search", "subagent">>, <<"browser", "subagent">>,
          <<"tavily", "search">>, <<"read", "report">>}

\* manager.py:549  tool_name.endswith("_subagent")
EndsWithSubagent(name) == Len(name) >= 2 /\ name[Len(name)] = "subagent"

\* todo_tools.py:22, 42-50, 99-107, 154, 180: the execute of a TODO tool has
\* no **kwargs; every other registered tool has (e.g. subagent_search.py:252,
\* tavily_wrapper.py:83, report_tools.py:41)
AcceptsAnyKeyword(name) == name \notin TodoToolNames

\* manager.py:527-532  timeout_seconds before the test for zero
ChosenTimeout(args, env) ==
    IF args.has_timeout THEN args._timeout
    ELSE IF env.kind = "int" THEN HalfSeconds(env.val)
    ELSE HalfSeconds(DefaultToolTimeout)

\* int(x): the integer part, towards zero, of a time in half seconds
IntPart(half) == IF half >= 0 THEN half \div 2 ELSE 0 - ((0 - half) \div 2)

\* manager.py:534-538  the timeout asyncio.wait_for is given
WaitForTimeout(args, env) ==
    IF IntPart(ChosenTimeout(args, env)) <= 0
    THEN HalfSeconds(NoEffectiveTimeout)
    ELSE ChosenTimeout(args, env)

\* manager.py:549-556, a faulty variant: the caller's session always wins
InjectSessionAlways(name, args, session) ==
    IF EndsWithSubagent(name) \/ name \in TodoToolNames
    THEN [args EXCEPT !.has_session = TRUE, !.session_id = session]
    ELSE args

\* manager.py:549-556  the arguments after the injection of session_id
InjectSession(name, args, session) ==
    IF (EndsWithSubagent(name) \/ name \in TodoToolNames) /\ ~args.has_session
    THEN [args EXCEPT !.has_session = TRUE, !.session_id = session]
    ELSE args

\* the names execute_tool is called with: the tools above and two names
\* that are not registered
ExecNames == ManagerTools \cup {<<"nope">>, <<"x", "subagent">>}

\* the arguments: with or without a session_id of their own, without a
\* _timeout or with one of -1, 0, 0.5, 1 or 2 seconds
ExecArgs ==
    {ToolArgs(hs, IF hs THEN "own" ELSE "", FALSE, 0) : hs \in BOOLEAN}
    \cup {ToolArgs(hs, IF hs THEN "own" ELSE "", TRUE, t) :
             hs \in BOOLEAN, t \in {-2, 0, 1, 2, 4}}

ExecEnvs == {EnvUnset, EnvText, EnvInt(0), EnvInt(1)}

InitExec ==
    /\ x_pc = "call"
    /\ x_name \in ExecNames
    /\ x_args \in ExecArgs
    /\ x_env \in ExecEnvs
    /\ x_session = "caller"
    /\ x_called = FALSE
    /\ x_passed = NoToolArgs
    /\ x_reached = FALSE
    /\ x_deadline = 0
    /\ x_clock = 0
    /\ x_result = "none"

\* manager.py:516-521
ExecUnknownTool ==
    /\ x_pc = "call"
    /\ x_name \notin ManagerTools
    /\ x_result' = "unknown_tool"
    /\ x_pc' = "returned"
    /\ UNCHANGED <<x_name, x_args, x_env, x_session, x_called, x_passed, x_reached,
                   x_deadline, x_clock>>
    /\ ExecFrame

\* manager.py:523-560  up to tool.execute(**arguments): a keyword the tool's
\* execute does not take raises TypeError there, inside the try
ExecCallTool ==
    /\ x_pc = "call"
    /\ x_name \in ManagerTools
    /\ x_deadline' = WaitForTimeout(x_args, x_env)
    /\ x_called' = TRUE
    /\ x_passed' = InjectSession(x_name, x_args, x_session)
    /\ IF x_args.has_timeout /\ ~AcceptsAnyKeyword(x_name)
       THEN /\ x_result' = "failure"
            /\ x_pc' = "returned"
            /\ UNCHANGED x_reached
       ELSE /\ x_reached' = TRUE
            /\ x_pc' = "running"
            /\ UNCHANGED x_result
    /\ UNCHANGED <<x_name, x_args, x_env, x_session, x_clock>>
    /\ ExecFrame

\* half a second passes while the tool runs
ExecTick ==
    /\ x_pc = "running"
    /\ x_clock < x_deadline
    /\ x_clock < MaxElapsed
    /\ x_clock' = x_clock + 1
    /\ UNCHANGED <<x_pc, x_name, x_args, x_env, x_session, x_called, x_passed,
                   x_reached, x_deadline, x_result>>
    /\ ExecFrame

\* manager.py:557-565  the tool returns before the timeout
ExecToolReturns ==
    /\ x_pc = "running"
    /\ x_clock < x_deadline
    /\ x_result' = "tool"
    /\ x_pc' = "returned"
    /\ UNCHANGED <<x_name, x_args, x_env, x_session, x_called, x_passed, x_reached,
                   x_deadline, x_clock>>
    /\ ExecFrame

\* manager.py:574-583  the tool raises before the timeout
ExecToolRaises ==
    /\ x_pc = "running"
    /\ x_clock < x_deadline
    /\ x_result' = "failure"
    /\ x_pc' = "returned"
    /\ UNCHANGED <<x_name, x_args, x_env, x_session, x_called, x_passed, x_reached,
                   x_deadline, x_clock>>
    /\ ExecFrame

\* manager.py:565-572  wait_for gives up
ExecTimeout ==
    /\ x_pc = "running"
    /\ x_clock >= x_deadline
    /\ x_result' = "timeout"
    /\ x_pc' = "returned"
    /\ UNCHANGED <<x_name, x_args, x_env, x_session, x_called, x_passed, x_reached,
                   x_deadline, x_clock>>
    /\ ExecFrame

NextExec ==
    \/ ExecUnknownTool
    \/ ExecCallTool
    \/ ExecTick
    \/ ExecToolReturns
    \/ ExecToolRaises
    \/ ExecTimeout

InitExecSpec ==
    InitExec /\ IdleMemory /\ IdleTrunc /\ IdleBatch /\ IdleLoop /\ IdleTodo /\ IdleSub
    /\ IdleTodoCall /\ IdleReport /\ IdleStore
    /\ IdleHttp
    /\ IdleRuns
    /\ IdleRate

\* ------------------------------------------------------------------------
\* Specification SpecExec: one execute_tool call for every name of ExecNames,
\* every arguments of ExecArgs and every TOOL_EXECUTION_TIMEOUT of ExecEnvs,
\* the tool running for up to MaxElapsed half seconds or for ever.
\* ------------------------------------------------------------------------
SpecExec == InitExecSpec /\ [][NextExec]_vars

\* ------------------------------------------------------------------------
\* ChatCompletions.create (core/httpx_openai_adapter.py:73-134), one request.
\* An HTTP attempt ends as [kind, code]: a response with a status code
\* ("status"; a 200 whose body is not JSON is "badjson"), httpx's
\* TimeoutException ("timeout"), or another exception of the post, such as a
\* refused connection ("error").
\* ------------------------------------------------------------------------
HttpOutcome(kind, code) == [kind |-> kind, code |-> code]

\* how one attempt may end
HttpOutcomes ==
    {HttpOutcome("status", code) : code \in {200, 502, 503, 429, 500, 401}}
    \cup {HttpOutcome("badjson", 200), HttpOutcome("timeout", 0), HttpOutcome("error", 0)}

\* httpx_openai_adapter.py:105-107  the response is returned
ReturnsCompletion(out) == out.kind = "status" /\ out.code = 200

\* httpx_openai_adapter.py:109-134  whether the loop goes on after an attempt
\* that did not return: the raise of "any other status" and the raise of the
\* last transient status are inside the try, and `except Exception` retries
\* whatever it catches unless the attempt is the last
RetriesAfter(out, attempt, max_retries) ==
    ~ReturnsCompletion(out) /\ attempt < max_retries - 1

\* httpx_openai_adapter.py:112, 123, 130  asyncio.sleep(2 ** attempt)
BackOff(attempt) == 2 ^ attempt

InitHttp ==
    /\ h_pc = "attempt"
    /\ h_max_retries \in 0..MaxRetries
    /\ h_attempt = 0
    /\ h_log = <<>>
    /\ h_sleeps = <<>>
    /\ h_result = "none"

\* httpx_openai_adapter.py:97  range(max_retries) is empty: create returns None
HttpLoopEnds ==
    /\ h_pc = "attempt"
    /\ h_attempt >= h_max_retries
    /\ h_result' = "nothing"
    /\ h_pc' = "ended"
    /\ UNCHANGED <<h_max_retries, h_attempt, h_log, h_sleeps>>
    /\ HttpFrame

\* httpx_openai_adapter.py:98-134  one pass of the loop up to its return,
\* raise or sleep
HttpAttempt ==
    /\ h_pc = "attempt"
    /\ h_attempt < h_max_retries
    /\ \E out \in HttpOutcomes :
         /\ h_log' = Append(h_log, out)
         /\ IF ReturnsCompletion(out)
            THEN h_result' = "completion" /\ h_pc' = "ended"
            ELSE IF RetriesAfter(out, h_attempt, h_max_retries)
            THEN h_pc' = "sleep" /\ UNCHANGED h_result
            ELSE h_result' = "error" /\ h_pc' = "ended"
    /\ UNCHANGED <<h_max_retries, h_attempt, h_sleeps>>
    /\ HttpFrame

\* httpx_openai_adapter.py:112-113, 123-124, 130-131  the back-off, then continue
HttpSleep ==
    /\ h_pc = "sleep"
    /\ h_sleeps' = Append(h_sleeps, BackOff(h_attempt))
    /\ h_attempt' = h_attempt + 1
    /\ h_pc' = "attempt"
    /\ UNCHANGED <<h_max_retries, h_log, h_result>>
    /\ HttpFrame

NextHttp == HttpLoopEnds \/ HttpAttempt \/ HttpSleep

InitHttpSpec ==
    InitHttp /\ IdleMemory /\ IdleTrunc /\ IdleBatch /\ IdleLoop /\ IdleTodo /\ IdleSub
    /\ IdleTodoCall /\ IdleReport /\ IdleStore /\ IdleExec
    /\ IdleRuns
    /\ IdleRate

\* ------------------------------------------------------------------------
\* Specification SpecHttp: one request under every max_retries up to
\* MaxRetries, every attempt ending in any of HttpOutcomes.
\* ------------------------------------------------------------------------
SpecHttp == InitHttpSpec /\ [][NextHttp]_vars

\* ========================================================================
\* LLMClient._apply_rate_limit (model_manager.py:147-183)
\* ========================================================================
\* The clients of the process and what they are asked: a profile with or
\* without a base_url of its own ("none": the profile has none and the client
\* falls back to OPENAI_BASE_URL), a profile model, and the override_model of
\* the chat call ("none": the profile's model is requested).
RateClients ==
    {[base_url |-> "x", model |-> "m1", override |-> "none"],
     [base_url |-> "none", model |-> "m1", override |-> "none"],
     [base_url |-> "x", model |-> "m2", override |-> "none"],
     [base_url |-> "x", model |-> "m2", override |-> "m1"]}

\* OPENAI_BASE_URL of the process
OpenAIBaseUrl == "x"

RateEnvs == {EnvUnset, EnvText, EnvInt(-1)} \cup {EnvInt(n) : n \in 0..MaxInterval}

\* model_manager.py:161-164  float(os.getenv("LLM_MIN_INTERVAL", "0")), 0 on failure
min_interval(env) == IF env.kind = "int" THEN env.val ELSE 0

\* model_manager.py:171  the key of the timestamp map
model_key(client) ==
    [base |-> IF client.base_url = "none" THEN "default" ELSE client.base_url,
     model |-> client.model]

\* model_manager.py:66-67, 127  where the request of the call goes
RequestTarget(client) ==
    [base_url |-> IF client.base_url = "none" THEN OpenAIBaseUrl ELSE client.base_url,
     model |-> IF client.override = "none" THEN client.model ELSE client.override]

\* model_manager.py:174  _last_call_times.get(model_key, 0)
LastCallTime(times, key) ==
    IF \E e \in times : e.key = key
    THEN (CHOOSE e \in times : e.key = key).time
    ELSE 0

\* model_manager.py:183  _last_call_times[model_key] = time.time()
SetLastCallTime(times, key, now) ==
    {e \in times : e.key # key} \cup {[key |-> key, time |-> now]}

RateStart == MaxInterval + 1

InitRate ==
    /\ r_env \in RateEnvs
    /\ r_calls \in [1..MaxRateCalls -> RateClients]
    /\ r_pc = [c \in 1..MaxRateCalls |-> "start"]
    /\ r_lock = 0
    /\ r_waiters = <<>>
    /\ r_wake = [c \in 1..MaxRateCalls |-> 0]
    /\ r_last_call_times = {}
    /\ r_clock = RateStart
    /\ r_log = <<>>

\* model_manager.py:183 and the end of the async with block: the timestamp
\* is written, the lock released, the call goes on to its request
RatePass(c) ==
    /\ r_last_call_times' = SetLastCallTime(r_last_call_times, model_key(r_calls[c]),
                                            r_clock)
    /\ r_pc' = [r_pc EXCEPT ![c] = "passed"]
    /\ r_lock' = 0
    /\ r_log' = Append(r_log, [call |-> c, time |-> r_clock])

\* model_manager.py:173-183  the body under the lock, up to the sleep or the end
RateLocked(c) ==
    LET last    == LastCallTime(r_last_call_times, model_key(r_calls[c]))
        elapsed == r_clock - last
    IN  IF elapsed < min_interval(r_env)
        THEN /\ r_pc' = [r_pc EXCEPT ![c] = "sleeping"]
             /\ r_wake' = [r_wake EXCEPT ![c] = r_clock + (min_interval(r_env) - elapsed)]
             /\ r_lock' = c
             /\ UNCHANGED <<r_last_call_times, r_log>>
        ELSE /\ RatePass(c)
             /\ UNCHANGED r_wake

\* model_manager.py:147-173  a call enters: it returns at once when the
\* interval is not positive, takes the lock when it is free and nobody
\* waits for it, and queues for it otherwise
RateCall(c) ==
    /\ r_pc[c] = "start"
    /\ IF min_interval(r_env) <= 0
       THEN /\ r_pc' = [r_pc EXCEPT ![c] = "passed"]
            /\ r_log' = Append(r_log, [call |-> c, time |-> r_clock])
            /\ UNCHANGED <<r_lock, r_waiters, r_wake, r_last_call_times>>
       ELSE IF r_lock = 0 /\ r_waiters = <<>>
       THEN /\ RateLocked(c)
            /\ UNCHANGED r_waiters
       ELSE /\ r_pc' = [r_pc EXCEPT ![c] = "queued"]
            /\ r_waiters' = Append(r_waiters, c)
            /\ UNCHANGED <<r_lock, r_wake, r_last_call_times, r_log>>
    /\ UNCHANGED <<r_env, r_calls, r_clock>>
    /\ RateFrame

\* asyncio.Lock: the first waiter gets the released lock
RateAcquire(c) ==
    /\ r_pc[c] = "queued"
    /\ r_lock = 0
    /\ r_waiters # <<>>
    /\ Head(r_waiters) = c
    /\ r_waiters' = Tail(r_waiters)
    /\ RateLocked(c)
    /\ UNCHANGED <<r_env, r_calls, r_clock>>
    /\ RateFrame

\* model_manager.py:178-183  asyncio.sleep(wait_time) is over
RateWake(c) ==
    /\ r_pc[c] = "sleeping"
    /\ r_clock >= r_wake[c]
    /\ RatePass(c)
    /\ UNCHANGED <<r_env, r_calls, r_waiters, r_wake, r_clock>>
    /\ RateFrame

\* a second passes
RateTick ==
    /\ r_clock < RateStart + MaxRateTicks
    /\ r_clock' = r_clock + 1
    /\ UNCHANGED <<r_env, r_calls, r_pc, r_lock, r_waiters, r_wake, r_last_call_times,
                   r_log>>
    /\ RateFrame

NextRate ==
    \/ \E c \in 1..MaxRateCalls : RateCall(c)
    \/ \E c \in 1..MaxRateCalls : RateAcquire(c)
    \/ \E c \in 1..MaxRateCalls : RateWake(c)
    \/ RateTick

InitRateSpec ==
    InitRate /\ IdleMemory /\ IdleTrunc /\ IdleBatch /\ IdleLoop /\ IdleTodo /\ IdleSub
    /\ IdleTodoCall /\ IdleReport /\ IdleStore /\ IdleExec /\ IdleHttp /\ IdleRuns

\* ------------------------------------------------------------------------
\* Specification SpecRate: MaxRateCalls chat calls of one process, each by a
\* client of RateClients, entering the limiter at any times and in any
\* order, under every LLM_MIN_INTERVAL of RateEnvs.
\* ------------------------------------------------------------------------
SpecRate == InitRateSpec /\ [][NextRate]_vars

\* ------------------------------------------------------------------------
\* Claims about check_and_compact (SpecCompact)
\* ------------------------------------------------------------------------
JustCompacted == compact_state.called /\ compact_state.compacted

\* C7: whenever check_and_compact returns compacted=true, the estimated
\* token count of context() right after the call is strictly less than the
\* threshold it returned.
C7_CompactedBelowThreshold ==
    JustCompacted =>
        _estimate_tokens(get_context(short_term_memory, mid_term_summary))
            < compact_state.threshold

\* C8: when the threshold is reached and the compact model fails or returns
\* an empty response, check_and_compact returns and leaves the short-term
\* transcript as it was before the call.
C8_FailedCompactionKeepsTranscript ==
    ( /\ compact_state.called
      /\ compact_state.tokens >= compact_state.threshold
      /\ compact_state.reply.kind \in {"empty", "failed"} )
    => short_term_memory = compact_state.before

\* the compact model returned a text that is not empty
CompactedWithText ==
    JustCompacted /\ compact_state.reply.kind = "text" /\ compact_state.reply.len > 0

OverheadAllowance == 4 * BlobMin

\* C9: for every tool result whose content is longer than
\* TOOL_RESULT_MAX_SIZE, the content of the message pushed to memory is at
\* most TOOL_RESULT_MAX_SIZE plus an overhead independent of the result's
\* size, for every result shape.
C9_TruncatedWithinOverhead ==
    ( /\ t_pc = "output"
      /\ ContentLen(t_in) > ToolResultMaxSize(t_max) )
    => t_out <= ToolResultMaxSize(t_max) + OverheadAllowance

\* ------------------------------------------------------------------------
\* Claims about execute_tool_calls (SpecBatch)
\* ------------------------------------------------------------------------
\* C2: execute_tool_calls returns one tool message per call, and the message
\* at position i carries the id of the call at position i, in whatever
\* order the calls completed.
C2_ResultsInCallOrder ==
    b_ret = "returned" =>
        /\ Len(b_results) = Len(b_calls)
        /\ \A i \in 1..Len(b_calls) : b_results[i].tool_call_id = b_calls[i].id

\* The batch returned although a later call completed before an earlier one.
C2_Witness ==
    /\ b_ret = "returned"
    /\ Len(b_calls) >= 2
    /\ \E i, j \in 1..Len(b_order) : i < j /\ b_order[i] > b_order[j]

NearestAssistant(msgs, k) ==
    LET before == {j \in 1..(k - 1) : msgs[j].role = "assistant"}
    IN  IF before = {} THEN 0 ELSE CHOOSE j \in before : \A i \in before : i <= j

\* C1: in every transcript the main loop persists, each tool message has
\* the tool_call_id of a tool call carried by the nearest preceding assistant
\* message, and that assistant message was appended before it.
C1_ToolMessagesAnswerNearestAssistant ==
    disk.saved =>
        \A k \in 1..Len(disk.messages) :
            disk.messages[k].role = "tool" =>
                LET j == NearestAssistant(disk.messages, k)
                IN  /\ j > 0
                    /\ \E c \in 1..Len(disk.messages[j].tool_calls) :
                          disk.messages[j].tool_calls[c].id = disk.messages[k].tool_call_id
                    /\ disk.messages[j].seq < disk.messages[k].seq

\* A persisted transcript of a finished run holds, for one turn with two
\* tool calls, the report of a sub-agent and the result of an ordinary tool.
C1_Witness ==
    /\ pc = "done"
    /\ disk.saved
    /\ \E k \in 1..(Len(disk.messages) - 1) :
          /\ disk.messages[k].role = "tool"
          /\ disk.messages[k + 1].role = "tool"
          /\ {disk.messages[k].kind, disk.messages[k + 1].kind} = {"subagent_report", "ok"}

\* the events one iteration yielded
IterEvents(it) == SelectSeq(events, LAMBDA e : e.iter = it)

\* C4: in each iteration whose reply carries tool calls, the events are all
\* content events first, then the tool_call event, then one tool_result
\* event per tool call in the order of the model's tool_calls.
C4_EventOrderPerIteration ==
    \A k \in 1..Len(turn_log) :
        LET calls == turn_log[k].reply.calls
            ev    == IterEvents(turn_log[k].iter)
            n     == Len(calls)
        IN  n > 0 =>
              \E c \in 0..Len(ev) :
                 /\ Len(ev) = c + 1 + n
                 /\ \A i \in 1..c : ev[i].type = "content"
                 /\ ev[c + 1].type = "tool_call"
                 /\ \A i \in 1..n : /\ ev[c + 1 + i].type = "tool_result"
                                    /\ ev[c + 1 + i].call = calls[i].id

DoneCount == Len(SelectSeq(events, LAMBDA e : e.type = "done"))

\* C5: every run whose model and tool calls return eventually emits done,
\* exactly once, as its last event, and emits nothing after it.
C5_ExactlyOneDoneAtTheEnd ==
    /\ <>(pc = "done")
    /\ [](pc = "done" => DoneCount = 1 /\ events[Len(events)].type = "done")
    /\ [](pc # "done" => DoneCount = 0)
    /\ [][pc = "done" => events' = events]_vars

\* A run that ended by an exception caught inside an iteration has emitted
\* its done event.
C5_Witness ==
    /\ pc = "done"
    /\ DoneCount = 1
    /\ \E k \in 1..Len(turn_log) : turn_log[k].how = "except"

\* C6: every run has written the session to disk by the time it emits done,
\* whichever way it ends.
C6_SavedBeforeDone == pc = "done" => saves >= 1

\* ---- the TODO items a sub-agent leaves behind ---------------------------
\* the run ended by a model reply without tool calls after iteration 2
NaturalExit == s_pc = "returned" /\ s_result.kind = "report"

\* C10: when a sub-agent run ends naturally, the session's TodoStore holds no
\* in_progress item of that sub-agent's agent_type, for every kind of
\* sub-agent, whatever items of that type existed before the run and whatever
\* create_subagent_todo / update_subagent_todo calls were made during it.
C10_NoInProgressAfterNaturalExit ==
    NaturalExit =>
        \A i \in 1..Len(todo_store) :
            ~(/\ todo_store[i].agent_type = AgentTypeOf(s_name)
              /\ todo_store[i].status = "in_progress")

\* the step in which _execute_tool runs the call at the head of the admitted
\* calls, its arguments parsed
ExecutesCall(name) ==
    /\ s_pc = "tools"
    /\ s_pending # <<>>
    /\ Head(s_pending).name = name
    /\ Head(s_pending).args # "badjson"
    /\ Len(s_memory') = Len(s_memory) + 1

\* C11: for every kind of sub-agent, when create_subagent_todo is called while
\* the TodoStore holds a pending or in_progress item of the sub-agent's
\* agent_type, no item is added to the TodoStore, the existing items become
\* the working list, and the result is marked skipped.
C11_CreateReusesActiveTodos ==
    [][(ExecutesCall("create_subagent_todo")
        /\ ActiveTodosOf(todo_store, AgentTypeOf(s_name)) # <<>>)
       => /\ todo_store' = todo_store
          /\ s_todos' = ActiveTodosOf(todo_store, AgentTypeOf(s_name))
          /\ s_memory'[Len(s_memory')].kind = "skipped"]_vars

\* ---- the first two iterations of a sub-agent ----------------------------
\* the latest reply of the sub-agent's model carried no tool call and came
\* in iteration 1 or 2
PlainReplyEarly ==
    /\ s_log # <<>>
    /\ s_log[Len(s_log)].reply.calls = <<>>
    /\ s_log[Len(s_log)].iter <= 2

\* C12: in iterations 1 and 2 of a sub-agent run, a model reply without tool
\* calls does not end the run: the reminder system message is appended to the
\* memory and the model is called again (the loop is entered once more), for
\* every max_iterations, 1 and 2 included.
C12_PlainReplyEarlyCallsModelAgain ==
    PlainReplyEarly =>
        /\ s_pc = "loop"
        /\ s_memory[Len(s_memory)].kind = "reminder"
        /\ s_iteration < s_max_iterations

\* ---- what a sub-agent run returns --------------------------------------
\* the run returned from below its while loop: every iteration was used, the
\* last one did not end in the report, and no tool call raised
StoppedAtMaxIterations ==
    /\ s_pc = "returned"
    /\ s_iteration >= s_max_iterations
    /\ s_pending = <<>>
    /\ \/ s_log = <<>>
       \/ s_log[Len(s_log)].admitted # <<>>
       \/ s_log[Len(s_log)].tool_choice = "required"

\* C13: a sub-agent that stops because it reached max_iterations returns the
\* compact report record of the natural exit: error = false, with summary,
\* todos_completed, todos_total, iterations and subagent.
C13_MaxIterationsReturnsReport ==
    StoppedAtMaxIterations =>
        /\ s_result.error = FALSE
        /\ s_result.kind = "report"
        /\ s_result.subagent = s_name
        /\ s_result.iterations = s_max_iterations

\* ---- execute_tool given an argument map --------------------------------
\* C14: execute_tool never raises when it is given an argument map: for a
\* tool name that is not registered it returns an error result and no tool is
\* invoked; when the tool exceeds its deadline it returns a timeout error
\* result; when the tool raises another exception it returns a failure error
\* result.
C14_ExecuteToolReturnsResults ==
    \A i \in 1..Len(b_calls) :
        b_calls[i].args = "object" =>
            /\ b_task[i] # "failed"
            /\ UnknownTool(b_calls[i]) =>
                 /\ b_task[i] # "running" /\ b_how[i] = "none"
                 /\ b_task[i] = "done" => b_res[i].body = "unknown_tool"
            /\ (b_task[i] = "done" /\ b_how[i] = "timeout") =>
                 b_res[i].body = "timeout_error"
            /\ (b_task[i] = "done" /\ b_how[i] = "tool_error") =>
                 b_res[i].body = "failure_error"
            /\ (b_task[i] = "done" /\ b_how[i] = "ok") => b_res[i].body = "ok"

\* A batch in which one tool timed out, one raised and one name was unknown,
\* all three called with an argument map and all three ended.
C14_Witness ==
    /\ \E i \in 1..Len(b_calls) : b_task[i] = "done" /\ b_how[i] = "timeout"
    /\ \E i \in 1..Len(b_calls) : b_task[i] = "done" /\ b_how[i] = "tool_error"
    /\ \E i \in 1..Len(b_calls) :
          b_task[i] = "done" /\ UnknownTool(b_calls[i]) /\ b_calls[i].args = "object"

\* C15: execute_tool_calls returns normally with exactly one tool result per
\* call for every arguments string: one that is not JSON gives an error
\* result at the index of its call, and so does JSON that is not an object;
\* the other calls of the batch are still executed.
C15_BatchReturnsOneResultPerCall ==
    /\ b_ret # "raised"
    /\ \A i \in 1..Len(b_calls) : b_task[i] # "failed"
    /\ b_ret = "returned" =>
         /\ Len(b_results) = Len(b_calls)
         /\ \A i \in 1..Len(b_calls) :
              b_calls[i].args # "object" =>
                  /\ b_results[i].tool_call_id = b_calls[i].id
                  /\ IsErrorBody(b_results[i].body)

\* ---- the reports of SearchSubAgent --------------------------------------
\* C16: a saved report is never overwritten: any two save_report calls return
\* distinct report ids, also with the same task description within the same
\* clock second, so read_report(id) keeps returning what that save wrote.
C16_ReportsNeverOverwritten ==
    /\ \A i, j \in 1..Len(r_saves) : i # j => r_saves[i].id # r_saves[j].id
    /\ \A i \in 1..Len(r_saves) :
          read_report(r_files, r_saves[i].id) = r_saves[i].content

\* ------------------------------------------------------------------------
\* Claims about the TodoStore (SpecTodo)
\* ------------------------------------------------------------------------
IdsOf(store) == [k \in 1..Len(store) |-> store[k].id]

\* the step is a reorder_todos call
ReorderCall == todo_ops' = todo_ops + 1 /\ todo_call'.op = "reorder"

\* C17: after any sequence of create, update, delete and reorder calls the
\* order fields of the stored items are exactly 0..n-1, no gap and no
\* duplicate, also after reorder calls whose id list holds unknown ids.
C17_OrderFieldsDense ==
    \A k \in 0..(Len(todo_store) - 1) :
        Cardinality({i \in 1..Len(todo_store) : todo_store[i].order = k}) = 1

\* C18: after any sequence of create, update, delete and reorder calls no two
\* stored items have the same id, and no item is lost except by delete, also
\* after reorder calls whose id list names an id more than once.
C18_IdsUniqueAndKept ==
    /\ [](\A i, j \in 1..Len(todo_store) :
            i # j => todo_store[i].id # todo_store[j].id)
    /\ [][todo_call'.op # "delete" =>
            \A i \in 1..Len(todo_store) :
                \E j \in 1..Len(todo_store') : todo_store'[j].id = todo_store[i].id]_vars

\* C19: reorder(ids) stores first the items whose ids appear in ids, in the
\* order given and skipping unknown ids, and then every item not named in
\* ids, in the relative order those items had before the call; the items
\* keep their status, priority and previous_status.
C19_ReorderNamedThenOthers ==
    [][ReorderCall =>
        LET ids    == todo_call'.ids
            before == IdsOf(todo_store)
            known(id)   == \E i \in 1..Len(before) : before[i] = id
            unnamed(id) == \A p \in 1..Len(ids) : ids[p] # id
        IN  /\ IdsOf(todo_store') = SelectSeq(ids, known) \o SelectSeq(before, unnamed)
            /\ \A j \in 1..Len(todo_store') :
                  \E i \in 1..Len(todo_store) :
                      /\ todo_store[i].id = todo_store'[j].id
                      /\ todo_store[i].status = todo_store'[j].status
                      /\ todo_store[i].priority = todo_store'[j].priority
                      /\ todo_store[i].previous_status = todo_store'[j].previous_status
       ]_vars

\* A reorder call that named an unknown id and a known one, and left two
\* items unnamed: the named item leads, the other two follow as they were.
C19_Witness ==
    /\ todo_call.op = "reorder"
    /\ todo_call.ids = <<0, 3>>
    /\ IdsOf(todo_store) = <<3, 1, 2>>

\* C20: when ids is a permutation of all item ids of the session,
\* reorder(ids) followed by list() returns the items in exactly the order of
\* ids, whatever their statuses, priorities and update times.
C20_ListAfterReorderFollowsIds ==
    [][(/\ ReorderCall
        /\ Len(todo_call'.ids) = Len(todo_store)
        /\ \A i \in 1..Len(todo_store) :
              Cardinality({p \in 1..Len(todo_call'.ids) :
                              todo_call'.ids[p] = todo_store[i].id}) = 1)
       => IdsOf(list_todos(todo_store')) = todo_call'.ids]_vars

\* the step is an update_todo call
UpdateCall == todo_ops' = todo_ops + 1 /\ todo_call'.op = "update"

ConfiguredHeavy == IF s_max_heavy.kind = "int" THEN s_max_heavy.val ELSE 1

\* the calls of the model's reply of log entry e that the throttle dropped
DroppedCalls(e) ==
    SelectSeq(e.reply.calls,
              LAMBDA c : \A i \in 1..Len(e.admitted) : e.admitted[i].id # c.id)

\* C25: in every sub-agent iteration every light call the model returned is
\* executed, and the number of heavy calls (name starts with tavily_ or ends
\* with _subagent) executed is at most SUBAGENT_MAX_HEAVY_CALLS_PER_ITER, for
\* every configured value of that variable, 0 included.
C25_HeavyCallsWithinConfiguredLimit ==
    \A k \in 1..Len(s_log) :
        /\ SelectSeq(s_log[k].admitted, LAMBDA c : ~IsHeavy(c))
               = SelectSeq(s_log[k].reply.calls, LAMBDA c : ~IsHeavy(c))
        /\ Len(SelectSeq(s_log[k].admitted, IsHeavy)) <= ConfiguredHeavy

\* C26: in a sub-agent iteration where the throttle drops heavy calls, the
\* assistant message recorded in the sub-agent's memory carries the ids of
\* the dropped calls, and no tool message with those tool_call_ids is ever
\* appended.
C26_DroppedIdsInAssistantMessage ==
    \A k \in 1..Len(s_log) :
        \A d \in 1..Len(DroppedCalls(s_log[k])) :
            LET id == DroppedCalls(s_log[k])[d].id
            IN  /\ \E i \in 1..Len(s_memory) :
                      /\ s_memory[i].role = "assistant"
                      /\ \E j \in 1..Len(s_memory[i].tool_calls) :
                            s_memory[i].tool_calls[j].id = id
                /\ \A i \in 1..Len(s_memory) :
                      s_memory[i].role = "tool" => s_memory[i].tool_call_id # id

\* ------------------------------------------------------------------------
\* Claims about overlapping TodoStore calls (SpecStore)
\* ------------------------------------------------------------------------
\* the files that the calls of the callers of S leave when they run one
\* after the other, in any order, on file
RECURSIVE SerialFiles(_, _)
SerialFiles(S, file) ==
    IF S = {} THEN {file}
    ELSE UNION {SerialFiles(S \ {p}, IF CallSaves(w_op[p], file)
                                      THEN ChangedData(p, w_op[p], file) ELSE file) : p \in S}

\* C22: writers of one session's TODO file are serialised: when two or more
\* create, update, delete or reorder calls on the same session overlap, no
\* write is lost (once no call is under way the stored list is what the
\* completed calls leave when run one after the other) and a reader never
\* observes a partially written list.
C22_WritersSerialised ==
    /\ w_seen # "partial"
    /\ (w_pc # <<>> /\ \A p \in Writers : w_pc[p] \in {"done", "failed"})
           => todo_store \in SerialFiles({p \in Writers : w_pc[p] = "done"}, w_file0)

\* ------------------------------------------------------------------------
\* Claims about runs of agent_main_loop given max_iterations = 0 (SpecLoop)
\* ------------------------------------------------------------------------
\* the events the setup of the run yields
SetupEvents == <<Event("meta", 0, "compact", 0)>> \o TodoEvents(request)

\* C23: with max_iterations = 0 the main loop calls the main model zero
\* times and, after the setup meta events, its event stream consists of the
\* single done event: no content, tool_call or tool_result event.
C23_ZeroIterationsOnlyDone ==
    (pc = "done" /\ max_iterations = 0) =>
        /\ model_calls = 0
        /\ Len(events) = Len(SetupEvents) + 1
        /\ SubSeq(events, 1, Len(SetupEvents)) = SetupEvents
        /\ events[Len(events)].type = "done"
        /\ \A i \in 1..Len(events) :
              events[i].type \notin {"content", "tool_call", "tool_result"}

\* ------------------------------------------------------------------------
\* Claims about long contents of the main model (SpecLoop)
\* ------------------------------------------------------------------------
\* the messages of the transcript that iteration entry e appended
AppendedIn(e) ==
    SelectSeq(short_term_memory, LAMBDA m : e.from < m.seq /\ m.seq <= e.to)

\* C27: when the model's content in a main-loop iteration is longer than
\* 5000 characters, no message appended to the transcript in that iteration
\* contains the full content, only the truncated reference, both when the
\* reply has no tool calls and when it also carries tool calls.
C27_LongContentOnlyByReference ==
    \A k \in 1..Len(turn_log) :
        LET content == ChatContent(turn_log[k].reply).len
            msgs    == AppendedIn(turn_log[k])
        IN  content > 5000 =>
              /\ \E i \in 1..Len(msgs) : msgs[i].kind = "content_ref"
              /\ \A i \in 1..Len(msgs) :
                    msgs[i].role = "assistant" => msgs[i].len < content

\* ------------------------------------------------------------------------
\* Claims about execute_tool (SpecExec)
\* ------------------------------------------------------------------------
\* C28: execute_tool adds session_id (the caller's session) to the arguments
\* exactly when the tool name ends with _subagent or is one of the five TODO
\* tools and the arguments carry no session_id; a session_id already present
\* is left unchanged, and the arguments of every other tool are passed on
\* without a session_id being added.
C28_SessionIdInjectedWhenMissing ==
    x_called =>
        LET named == \/ x_name[Len(x_name)] = "subagent" /\ Len(x_name) > 1
                     \/ x_name \in {<<"list", "todos">>, <<"create", "todo">>,
                                    <<"update", "todo">>, <<"delete", "todo">>,
                                    <<"reorder", "todos">>}
        IN  /\ (named /\ ~x_args.has_session)
                 => x_passed.has_session /\ x_passed.session_id = x_session
            /\ x_args.has_session
                 => x_passed.has_session /\ x_passed.session_id = x_args.session_id
            /\ (~named /\ ~x_args.has_session) => ~x_passed.has_session

\* A sub-agent tool called without a session_id got the caller's and returned.
C28_Witness ==
    /\ x_called
    /\ x_name = <<"search", "subagent">>
    /\ x_result = "tool"
    /\ ~x_args.has_session
    /\ x_passed.has_session
    /\ x_passed.session_id = "caller"

\* what the arguments and the environment choose as the timeout, in half
\* seconds: args._timeout, otherwise TOOL_EXECUTION_TIMEOUT, otherwise 120 s
ChosenDeadline ==
    IF x_args.has_timeout THEN x_args._timeout
    ELSE IF x_env.kind = "int" THEN 2 * x_env.val
    ELSE 2 * 120

\* C29: the deadline execute_tool applies to a call is args._timeout when
\* the arguments carry it, otherwise TOOL_EXECUTION_TIMEOUT, otherwise 120
\* seconds; when the chosen value is zero or negative the call is never ended
\* by a timeout; and a call with _timeout set still reaches the tool and
\* returns the tool's own result.
C29_DeadlineFromArgsEnvDefault ==
    x_called =>
        /\ ChosenDeadline > 0 => x_deadline = ChosenDeadline
        /\ ChosenDeadline <= 0 => x_result # "timeout"
        /\ x_args.has_timeout => x_reached

\* ------------------------------------------------------------------------
\* Claims about the retries of a chat-completions request (SpecHttp)
\* ------------------------------------------------------------------------
\* an attempt after which the claim allows another one
MayBeRetried(out) ==
    \/ out.kind = "status" /\ out.code \in {502, 503, 429}
    \/ out.kind = "timeout"

\* C30: one chat-completions request makes at most API_MAX_RETRIES HTTP
\* attempts; a further attempt (after a back-off of 2^attempt seconds) is
\* made only after a 502, 503 or 429 status or a timeout, and any other
\* non-200 status ends the request with an error after a single attempt.
C30_RetriesOnlyOnTransientFailures ==
    /\ Len(h_log) <= h_max_retries
    /\ \A k \in 1..Len(h_sleeps) :
          /\ MayBeRetried(h_log[k])
          /\ h_sleeps[k] = 2 ^ (k - 1)
    /\ Len(h_log) >= 1 => Len(h_sleeps) \in {Len(h_log) - 1, Len(h_log)}
    /\ \A k \in 1..Len(h_log) :
          (h_log[k].kind = "status" /\ h_log[k].code \notin {200, 502, 503, 429})
              => /\ h_pc = "ended"
                 /\ k = Len(h_log)
                 /\ h_result = "error"

\* ------------------------------------------------------------------------
\* Claims about the report and the end of a sub-agent run (SpecSub)
\* ------------------------------------------------------------------------
\* C32: the summary field of every compact report a sub-agent returns on
\* natural exit is at most 200 characters long, for every length of the
\* final model content, up to 500 characters and above 500.
C32_SummaryAtMost200 == NaturalExit => s_result.summary <= 200

\* ------------------------------------------------------------------------
\* Claims about the end of a run of agent_main_loop (SpecLoop)
\* ------------------------------------------------------------------------
\* the run ended after a turn of the model without tool calls
EndedByPlainTurn ==
    /\ pc = "done"
    /\ turn_log # <<>>
    /\ turn_log[Len(turn_log)].how = "break"

\* save_to_disk calls of the run that are not the one of the setup compaction
SavesAtTheEnd == saves - (IF compact_state.compacted THEN 1 ELSE 0)

\* C33: in any main-loop run at most one termination path executes: a run
\* that ends with a no-tool-call turn never also emits the max-iterations
\* warning content event, and it persists the session and runs the LTM
\* preference extraction at most once, also when the no-tool-call turn
\* happens in iteration number max_iterations.
C33_OneTerminationPath ==
    EndedByPlainTurn =>
        /\ \A i \in 1..Len(events) : events[i].kind # "warning"
        /\ SavesAtTheEnd <= 1
        /\ ltm_calls <= 1

\* the assistant messages of the transcript that iteration entry e appended
AssistantMsgsOf(e) == SelectSeq(AppendedIn(e), LAMBDA m : m.role = "assistant")

\* C34: each main-model turn adds exactly one assistant message to the
\* transcript: when the reply has both non-empty content and tool calls, the
\* transcript does not receive one assistant message for the content and a
\* second one for the tool calls.
C34_OneAssistantMessagePerTurn ==
    \A k \in 1..Len(turn_log) :
        (ChatContent(turn_log[k].reply).len > 0 \/ turn_log[k].reply.calls # <<>>)
            => Len(AssistantMsgsOf(turn_log[k])) = 1

ModelCallIsNext == pc = "loop" /\ iteration < max_iterations
HasSystemPrompt(ctx) == \E i \in 1..Len(ctx) : ctx[i].kind = "system_prompt"
\* C35: the system prompt message pushed at setup is part of the context of
\* every model call of the run: whenever the loop is about to call the model,
\* get_context holds the system prompt, also after the setup compaction cut a
\* transcript of more than six messages.
C35_SystemPromptInEveryContext ==
    ModelCallIsNext => HasSystemPrompt(get_context(short_term_memory, mid_term_summary))

PositionIn(calls, c) == CHOOSE p \in 1..Len(calls) : calls[p] = c
InModelOrder(calls, admitted) ==
    \A i, j \in 1..Len(admitted) :
        i < j => PositionIn(calls, admitted[i]) < PositionIn(calls, admitted[j])
ToolMsgsOf(mem) == SelectSeq(mem, LAMBDA m : m.role = "tool")
\* C39: within one sub-agent iteration the admitted tool calls are executed,
\* and their tool messages appended, in the order in which the model returned
\* them, also when the reply mixes heavy and light calls.  The model numbers
\* the calls of a run in the order the model returns them, so the tool
\* messages of the run answer call ids in increasing order.
C39_ToolCallsInModelOrder ==
    /\ \A k \in 1..Len(s_log) : InModelOrder(s_log[k].reply.calls, s_log[k].admitted)
    /\ \A p, q \in 1..Len(ToolMsgsOf(s_memory)) :
          p < q => ToolMsgsOf(s_memory)[p].tool_call_id < ToolMsgsOf(s_memory)[q].tool_call_id

StoredStatus(store, id) ==
    LET hits == SelectSeq(store, LAMBDA t : t.id = id)
    IN  IF hits = <<>> THEN "missing" ELSE hits[1].status
TodoCallAnswered ==
    /\ s_pc \in {"loop", "tools"}
    /\ \E k \in 1..Len(s_log) : \E i \in 1..Len(s_log[k].admitted) :
          /\ s_log[k].admitted[i].name \in {"create_subagent_todo", "update_subagent_todo"}
          /\ \E p \in 1..Len(s_memory) :
                s_memory[p].role = "tool" /\ s_memory[p].tool_call_id = s_log[k].admitted[i].id
\* C36: after every create_subagent_todo or update_subagent_todo call of a
\* sub-agent, whether it succeeded or returned an error, each in-memory item
\* that has a _todo_id has the same status as the TodoStore item with that id.
C36_MemoryMatchesStore ==
    TodoCallAnswered =>
        \A i \in 1..Len(s_todos) :
            s_todos[i].todo_id # 0 =>
                StoredStatus(todo_store, s_todos[i].todo_id) = s_todos[i].status

SameText(a, b) == a.role = b.role /\ a.len = b.len
KeptIn(later, earlier) ==
    \A i \in 1..Len(earlier) : \E j \in 1..Len(later) : SameText(earlier[i], later[j])
SecondRunPersisted == run_no = 2 /\ pc = "done" /\ first_disk.saved /\ saves > 0
\* C37: persisting a session never discards messages an earlier run persisted
\* under the same session_id: after two main-loop runs with the same
\* session_id the conversation file contains the messages the first run
\* persisted, also when the second request carries no history.  Messages are
\* compared by role and text.
C37_EarlierMessagesKept ==
    SecondRunPersisted => KeptIn(disk.messages, first_disk.messages)

ResultKinds == {"report", "max_iterations", "exception"}
SameTarget(i, j) ==
    RequestTarget(r_calls[r_log[i].call]) = RequestTarget(r_calls[r_log[j].call])
NoCallWaits == \A c \in DOMAIN r_pc : r_pc[c] \in {"start", "passed"}
\* C31: with LLM_MIN_INTERVAL > 0, any two model calls for the same
\* (base_url, model) pair pass the rate limiter at least LLM_MIN_INTERVAL
\* apart, also when different LLMClient instances issue them concurrently;
\* with LLM_MIN_INTERVAL <= 0 no call waits and the timestamp map is not
\* touched.
C31_CallsSpacedPerModel ==
    /\ min_interval(r_env) > 0 =>
          \A i, j \in 1..Len(r_log) :
              (i < j /\ SameTarget(i, j)) =>
                  r_log[j].time - r_log[i].time >= min_interval(r_env)
    /\ min_interval(r_env) <= 0 => (NoCallWaits /\ r_last_call_times = {})

====
